---------------------------- MODULE Spec2Model ----------------------------
(***************************************************************************)
(* A model of marvelous-yeti's argument-exposition engine                  *)
(* (my/commands/arguments.py) and of its registration trees                *)
(* (my/utils/tree.py, my/plugins/load.py).                                 *)
(*                                                                         *)
(* Python strings are sequences of one-character strings, so that          *)
(* argslug, str.startswith, str.endswith, str.split and str.join are       *)
(* computed character by character.  Python values are records tagged by   *)
(* the field t.  A dict is a function whose domain is its key set.         *)
(***************************************************************************)
EXTENDS Integers, Sequences, FiniteSets, TLC

VARIABLES
    decl,       \* the declaration instance (a dataclass deriving ExposeArguments)
    call,       \* the last call made: operation and arguments
    ret,        \* what that call returned (or the exception it raised)
    tree,       \* the tree under study: its class and its config
    nodes,      \* AttrTree / NamedTree: node path -> [name, root, exposed, leafs, attrs]
    added,      \* every (item, hierarchy) whose AttrTree.add_item returned, in order
    exposed2,   \* AttrTree2._exposed: full path -> item value
    items2,     \* AttrTree2._items
    ncalls,     \* add_item calls made on the tree so far
    main_parser, \* main's parser: subcommand path -> [defaults, subparsers, process]
    main_args,  \* main's args: what parser.parse_args() returned
    procs,      \* the operating-system processes Popen started, in start order
    pc,         \* where the run() under way stands
    sub_i,      \* SequentialProcessRunner.run: the sub-runnable the loop is at
    outputs,    \* SequentialProcessRunner.run: its local outputs
    sub_outputs, \* SequentialProcessRunner.run: its local sub_outputs
    plugins,    \* PluginLoader.plugins: plugin name -> Plugin
    registries, \* the PluginRegistry objects entry points load
    loads,      \* every (kind, entry point) handed to the loader, in order
    sentinels   \* the objects of the sentinel classes there are, in creation order

vars == <<decl, call, ret, tree, nodes, added, exposed2, items2, ncalls,
          main_parser, main_args, procs, pc, sub_i, outputs, sub_outputs,
          plugins, registries, loads, sentinels>>
argVars == <<decl, call, ret>>
cliVars == <<main_parser, main_args>>
loadVars == <<plugins, registries, loads>>
treeVars == <<tree, nodes, added, exposed2, items2, ncalls, cliVars, loadVars, sentinels>>
runVars == <<procs, pc, sub_i, outputs, sub_outputs>>

----------------------------------------------------------------------------
(* Bounds of the model.                                                    *)

\* Parameterized sentinel objects (results of REQUIRED_ARGUMENT(...) and the
\* like) have identities 1..MaxCopies; the module-level singletons have 0.
MaxCopies == 1
\* add_item calls on one tree.
MaxItems == 3
\* Segments of a hierarchy (dotted path) handed to add_item.
MaxDepth == 2
\* Runnables (Sequentials included) in the left operand of a composition
\* with '|'.
MaxRunners == 5
\* Sub-runnables of a SequentialProcessRunner that is run.
MaxSubs == 3
\* Plugins the loader registered.
MaxPlugins == 2

----------------------------------------------------------------------------
(* Strings.                                                                *)

Chr(s, i) == s[i]

StartsWith(s, p) ==
    /\ Len(p) <= Len(s)
    /\ SubSeq(s, 1, Len(p)) = p

EndsWith(s, p) ==
    /\ Len(p) <= Len(s)
    /\ SubSeq(s, Len(s) - Len(p) + 1, Len(s)) = p

\* A slug that keeps the underscores.
argslug_keep(s) == s
\* argslug: s.replace("_", "-")
argslug(s) == [i \in 1..Len(s) |-> IF s[i] = "_" THEN "-" ELSE s[i]]

Dashes == <<"-", "-">>


----------------------------------------------------------------------------
(* Python values.                                                          *)

Str(s) == [t |-> "str", s |-> s]
NoneV == [t |-> "none"]
EllipsisV == [t |-> "ellipsis"]
NameV(n) == [t |-> "name", n |-> n]
\* The marker dataclasses.MISSING.
MISSING == [t |-> "MISSING"]

EmptyDict == <<>>
HasKey(d, k) == k \in DOMAIN d
\* dict.update
DictUpdate(d, e) ==
    [k \in DOMAIN d \cup DOMAIN e |-> IF k \in DOMAIN e THEN e[k] ELSE d[k]]
\* d[k] = v
DictSet(d, k, v) == [j \in DOMAIN d \cup {k} |-> IF j = k THEN v ELSE d[j]]
\* del d[k]
DictDel(d, k) == [j \in DOMAIN d \ {k} |-> d[j]]

\* An instance of a _SPECIAL_ARGUMENT subclass.  id is the object's
\* identity: 0 for the module-level singleton of its class, a positive
\* number for an object that __call__ created.
Sentinel(cls, id, aargs, akwargs) ==
    [t |-> "sentinel", cls |-> cls, id |-> id,
     argparse_args |-> aargs, argparse_kwargs |-> akwargs]

REQUIRED_ARGUMENT == Sentinel("_REQUIRED_ARGUMENT", 0, <<>>, EmptyDict)
HIDDEN_ARGUMENT == Sentinel("_HIDDEN_ARGUMENT", 0, <<>>, EmptyDict)
OPTIONAL_ARGUMENT == Sentinel("_OPTIONAL_ARGUMENT", 0, <<>>, EmptyDict)
\* The subclass of _OPTIONAL_ARGUMENT that the tests declare.
SPECIAL_OPTIONAL_ARGUMENT ==
    Sentinel("_SPECIAL_OPTIONAL_ARGUMENT", 0, <<>>, EmptyDict)

\* _SPECIAL_ARGUMENT.__call__: a new object of the same class carrying the
\* options; raises AttributeError when 'dest' is among the keyword options.
SpecialCall(self, id, aargs, akwargs) ==
    IF HasKey(akwargs, "dest")
    THEN [t |-> "raise", exc |-> "AttributeError"]
    ELSE Sentinel(self.cls, id, aargs, akwargs)

\* issubclass among the sentinel classes.
IsSubclass(c, base) ==
    \/ c = base
    \/ c = "_SPECIAL_OPTIONAL_ARGUMENT" /\ base = "_OPTIONAL_ARGUMENT"

\* Python's == on the values of the model: objects of the sentinel classes
\* define no __eq__, so they compare by identity.
PyEq(a, b) ==
    IF a.t # b.t THEN FALSE
    ELSE IF a.t = "sentinel" THEN a.cls = b.cls /\ a.id = b.id
    ELSE a = b

\* is_special_argument(obj, special_args): special_args is the set of the
\* classes of the singletons given; Ellipsis is the alias of REQUIRED.
is_special_argument(obj, special_args) ==
    \/ obj.t = "sentinel" /\ \E c \in special_args : IsSubclass(obj.cls, c)
    \/ obj.t = "ellipsis" /\ "_REQUIRED_ARGUMENT" \in special_args

_SPECIAL_ARGUMENT_VALUES ==
    {"_REQUIRED_ARGUMENT", "_HIDDEN_ARGUMENT", "_OPTIONAL_ARGUMENT"}
IsRequired(v) == is_special_argument(v, {"_REQUIRED_ARGUMENT"})
IsOptional(v) == is_special_argument(v, {"_OPTIONAL_ARGUMENT"})
IsHidden(v) == is_special_argument(v, {"_HIDDEN_ARGUMENT"})

----------------------------------------------------------------------------
(* Dataclass fields.                                                       *)

\* dataclasses.field(...): dflt is [kind, val], kind one of "MISSING",
\* "default", "factory"; meta is the "argparse" metadata or absent;
\* nested says that the declared type is a subclass of ExposeArguments.
NoDefault == [kind |-> "MISSING", val |-> MISSING]
Default(v) == [kind |-> "default", val |-> v]
Factory(v) == [kind |-> "factory", val |-> v]
NoMeta == [has |-> FALSE, args |-> <<>>, kwargs |-> EmptyDict, exclude |-> FALSE]

Field(name, init, dflt, meta, nested) ==
    [name |-> name, init |-> init, dflt |-> dflt, meta |-> meta, nested |-> nested]

\* name: T   /   name: T = value
PlainField(name, dflt) == Field(name, TRUE, dflt, NoMeta, FALSE)
\* name: T = field(init=False, default=value)
InitFalseField(name, v) == Field(name, FALSE, Default(v), NoMeta, FALSE)
\* name: Sub, Sub a declaration class
NestedField(name) == Field(name, TRUE, NoDefault, NoMeta, TRUE)

\* field_value(val)
field_value(name, val) == Field(name, TRUE, Factory(val), NoMeta, FALSE)

\* args(*args, **kwargs): the field's default comes from kwargs, and the
\* metadata keeps every keyword, 'default' and 'exclude' included.
args(name, posargs, kwargs) ==
    Field(name, TRUE,
          IF HasKey(kwargs, "default") THEN Default(kwargs["default"])
          ELSE IF HasKey(kwargs, "default_factory")
               THEN Factory(kwargs["default_factory"])
               ELSE NoDefault,
          [has |-> TRUE, args |-> posargs, kwargs |-> kwargs,
           exclude |-> IF HasKey(kwargs, "exclude")
                       THEN kwargs["exclude"] ELSE FALSE],
          FALSE)

\* A final_value that leaves 'exclude' out.
final_value_notExcluded(name, value) ==
    args(name, <<>>, [default_factory |-> value])

\* final_value(value)
final_value(name, value) ==
    args(name, <<>>, [exclude |-> TRUE, default_factory |-> value])

\* The static default of a field as _arguments computes it.
default_val(f) ==
    IF f.dflt.kind # "MISSING" THEN f.dflt.val ELSE NoneV

\* A declaration instance: the fields of its class and their values.
Decl(fields, vals) == [t |-> "decl", fields |-> fields, vals |-> vals]
FieldIndex(d, name) == CHOOSE i \in 1..Len(d.fields) : d.fields[i].name = name
FieldNames(d) == {d.fields[i].name : i \in 1..Len(d.fields)}
\* getattr(self, name), name a field
GetAttr(d, name) == d.vals[FieldIndex(d, name)]

----------------------------------------------------------------------------
(* ExposeArguments._arguments.                                             *)

\* The include predicates the repository passes as add_all_fields: the
\* booleans, and StdinConverter's lambda "the value is not Ellipsis".
Includes == {"True", "False", "not_ellipsis"}
include_field(inc, field_val) ==
    CASE inc = "True" -> TRUE
      [] inc = "False" -> FALSE
      [] inc = "not_ellipsis" -> field_val.t # "ellipsis"

\* Lines 168-173: the metadata of the field, or basic arguments.
SeedSpec(f, field_val) ==
    IF f.meta.has
    THEN [args |-> f.meta.args, exclude |-> f.meta.exclude, kwargs |-> f.meta.kwargs]
    ELSE [args |-> <<>>, exclude |-> FALSE, kwargs |-> [default |-> field_val]]

\* Lines 175-185: the argument name, and whether the field is optional.
BaseName(f, seed) == IF seed.args = <<>> THEN f.name ELSE seed.args[1]
FieldIsOptional(f, field_val) ==
    PyEq(field_val, default_val(f)) \/ IsOptional(field_val)
ArgName(f, field_val, seed) ==
    IF FieldIsOptional(f, field_val)
    THEN argslug(Dashes \o BaseName(f, seed))
    ELSE BaseName(f, seed)

\* A default step that leaves the default of a required field in place.
DefaultKwargs_keep(f, field_val, kwargs) ==
    IF IsOptional(field_val) THEN DictSet(kwargs, "default", default_val(f))
    ELSE kwargs
\* Lines 187-192: the default.
DefaultKwargs(f, field_val, kwargs) ==
    IF IsOptional(field_val) THEN DictSet(kwargs, "default", default_val(f))
    ELSE IF IsRequired(field_val) /\ HasKey(kwargs, "default")
         THEN DictDel(kwargs, "default")
         ELSE kwargs

\* Lines 198-203: the options set on the special argument override.
\* getattr(field_val, "argparse_args", []): Ellipsis has no such attribute.
SentinelArgs(field_val) ==
    IF field_val.t = "sentinel" THEN field_val.argparse_args ELSE <<>>
SentinelKwargs(field_val) ==
    IF field_val.t = "sentinel" THEN field_val.argparse_kwargs ELSE EmptyDict
\* An override in which the options of the field's metadata win.
OverrideSpec_metadataWins(field_val, spec) ==
    IF is_special_argument(field_val, _SPECIAL_ARGUMENT_VALUES)
    THEN [spec EXCEPT
            !.args = IF SentinelArgs(field_val) # <<>>
                     THEN SentinelArgs(field_val) ELSE @,
            !.kwargs = IF SentinelKwargs(field_val) # EmptyDict
                       THEN DictUpdate(SentinelKwargs(field_val), @) ELSE @]
    ELSE spec
\* Lines 198-203.
OverrideSpec(field_val, spec) ==
    IF is_special_argument(field_val, _SPECIAL_ARGUMENT_VALUES)
    THEN [spec EXCEPT
            !.args = IF SentinelArgs(field_val) # <<>>
                     THEN SentinelArgs(field_val) ELSE @,
            !.kwargs = IF SentinelKwargs(field_val) # EmptyDict
                       THEN DictUpdate(@, SentinelKwargs(field_val)) ELSE @]
    ELSE spec

\* Lines 205-216: dest is kept equal to the field name when the name the
\* special argument gave differs from the computed one.
DestSpec(f, field_val, arg_name, spec) ==
    IF argslug(spec.args[1]) # argslug(arg_name)
    THEN IF FieldIsOptional(f, field_val)
         THEN [spec EXCEPT !.kwargs = DictSet(@, "dest", NameV(f.name))]
         ELSE [spec EXCEPT
                 !.kwargs = DictSet(@, "metavar", NameV(spec.args[1])),
                 !.args = <<f.name>> \o Tail(spec.args)]
    ELSE spec

\* The argument spec of one field that passed the filters of lines 146-166.
ArgSpec(f, field_val) ==
    LET seed == SeedSpec(f, field_val)
        arg_name == ArgName(f, field_val, seed)
        s1 == [seed EXCEPT !.kwargs = DefaultKwargs(f, field_val, @),
                           !.args = <<arg_name>>]
        s2 == OverrideSpec(field_val, s1)
    IN  DestSpec(f, field_val, arg_name, s2)

\* A filter that lets every accepted init field through.
Exposed_all(d, inc, i) ==
    /\ d.fields[i].init
    /\ include_field(inc, d.vals[i])
\* Lines 144-166: the fields that get a spec.
Exposed(d, inc, i) ==
    /\ d.fields[i].init
    /\ is_special_argument(d.vals[i], {"_REQUIRED_ARGUMENT", "_OPTIONAL_ARGUMENT"})
    /\ include_field(inc, d.vals[i])

\* _arguments(add_all_fields=inc): field name -> spec.
_arguments(d, inc) ==
    LET idx == {i \in 1..Len(d.fields) : Exposed(d, inc, i)}
    IN  [n \in {d.fields[i].name : i \in idx} |->
            ArgSpec(d.fields[FieldIndex(d, n)], GetAttr(d, n))]

----------------------------------------------------------------------------
(* argparse.ArgumentParser.add_argument, as add_arguments calls it.        *)

Raise(exc) == [t |-> "raise", exc |-> exc]
IsRaise(r) == r.t = "raise"

\* str.lstrip("-")
RECURSIVE Lstrip(_)
Lstrip(s) == IF s # <<>> /\ s[1] = "-" THEN Lstrip(Tail(s)) ELSE s
\* str.replace("-", "_")
Underscored(s) == [i \in 1..Len(s) |-> IF s[i] = "-" THEN "_" ELSE s[i]]

\* The keywords the store action accepts; any other is a TypeError.
ArgparseKeywords ==
    {"dest", "nargs", "const", "default", "type", "choices", "required",
     "help", "metavar", "action"}

EmptyParser == [t |-> "parser", actions |-> <<>>]
OptionStrings(parser) ==
    UNION {{parser.actions[i].option_strings[j] :
                j \in 1..Len(parser.actions[i].option_strings)} :
           i \in 1..Len(parser.actions)}

\* The action argparse builds for (*names, **kwargs): positional when the
\* single name does not start with '-', optional otherwise.  owner is the
\* name of the field the spec was computed for (not an argparse attribute).
NewAction(names, kwargs, owner) ==
    IF Len(names) = 1 /\ names[1][1] # "-"
    THEN IF HasKey(kwargs, "dest") THEN Raise("ValueError")
         ELSE IF ~(DOMAIN kwargs \subseteq ArgparseKeywords) THEN Raise("TypeError")
         ELSE [t |-> "action", dest |-> names[1], option_strings |-> <<>>,
               required |-> TRUE,
               default |-> IF HasKey(kwargs, "default") THEN kwargs["default"] ELSE NoneV,
               metavar |-> IF HasKey(kwargs, "metavar") THEN kwargs["metavar"] ELSE NoneV,
               owner |-> owner]
    ELSE IF \E j \in 1..Len(names) : names[j][1] # "-" THEN Raise("ValueError")
         ELSE IF ~(DOMAIN kwargs \subseteq ArgparseKeywords) THEN Raise("TypeError")
         ELSE [t |-> "action",
               dest |-> IF HasKey(kwargs, "dest") THEN kwargs["dest"].n
                        ELSE Underscored(Lstrip(names[1])),
               option_strings |-> names,
               required |-> FALSE,
               default |-> IF HasKey(kwargs, "default") THEN kwargs["default"] ELSE NoneV,
               metavar |-> IF HasKey(kwargs, "metavar") THEN kwargs["metavar"] ELSE NoneV,
               owner |-> owner]

\* parser.add_argument: the parser with the action added, or the exception
\* (ArgumentError when the option string is already taken).
add_argument(parser, names, kwargs, owner) ==
    LET a == NewAction(names, kwargs, owner)
    IN  IF IsRaise(a) THEN a
        ELSE IF \E j \in 1..Len(a.option_strings) :
                    a.option_strings[j] \in OptionStrings(parser)
             THEN Raise("ArgumentError")
             ELSE [parser EXCEPT !.actions = Append(@, a)]

\* ExposeArguments.add_arguments, lines 109-112: the specs of the fields in
\* field order, the excluded ones skipped.
RECURSIVE AddSpecs(_, _, _, _)
AddSpecs(parser, d, specs, i) ==
    IF i > Len(d.fields) \/ IsRaise(parser) THEN parser
    ELSE LET n == d.fields[i].name
         IN  IF n \notin DOMAIN specs \/ specs[n].exclude
             THEN AddSpecs(parser, d, specs, i + 1)
             ELSE AddSpecs(add_argument(parser, specs[n].args, specs[n].kwargs, n),
                           d, specs, i + 1)

\* ExposeArguments.add_arguments: its own specs, then (lines 114-116) the
\* arguments of every field whose type is a declaration class, on the same
\* parser.  A value that is no declaration has no add_arguments.
RECURSIVE add_arguments(_, _, _)
RECURSIVE AddNested(_, _, _, _)
AddNested(parser, d, inc, i) ==
    IF i > Len(d.fields) \/ IsRaise(parser) THEN parser
    ELSE IF ~d.fields[i].nested THEN AddNested(parser, d, inc, i + 1)
    ELSE IF d.vals[i].t # "decl" THEN Raise("AttributeError")
    ELSE AddNested(add_arguments(parser, d.vals[i], inc), d, inc, i + 1)
add_arguments(parser, d, inc) ==
    AddNested(AddSpecs(parser, d, _arguments(d, inc), 1), d, inc, 1)

----------------------------------------------------------------------------
(* ExposeArguments.with_arguments.                                         *)

\* The name of a method of the declaration classes (ProcessRunner.run):
\* hasattr is true of it although it is no field.
RunName == <<"r", "u", "n">>
ClassAttrs == {RunName}
HasAttr(d, name) == name \in FieldNames(d) \cup ClassAttrs

\* Lines 229-235: the static default of a hidden field, Ellipsis when the
\* field has neither default nor factory.
hidden_value(f) == IF f.dflt.kind # "MISSING" THEN f.dflt.val ELSE EllipsisV

\* A replace that rebuilds the object from the changes alone.
replace_onlyChanges(d, changes) ==
    IF ~(DOMAIN changes \subseteq FieldNames(d)) THEN Raise("TypeError")
    ELSE Decl(d.fields,
              [i \in 1..Len(d.fields) |->
                  IF d.fields[i].name \in DOMAIN changes
                  THEN changes[d.fields[i].name]
                  ELSE IF d.fields[i].dflt.kind = "MISSING" THEN MISSING
                       ELSE d.fields[i].dflt.val])

\* dataclasses.replace(obj, **changes): a field declared init=False cannot
\* be given and takes its default again; a name that is no field is refused
\* by __init__.
replace(d, changes) ==
    IF \E i \in 1..Len(d.fields) :
          ~d.fields[i].init /\ d.fields[i].name \in DOMAIN changes
    THEN Raise("ValueError")
    ELSE IF ~(DOMAIN changes \subseteq FieldNames(d)) THEN Raise("TypeError")
    ELSE Decl(d.fields,
              [i \in 1..Len(d.fields) |->
                  IF ~d.fields[i].init THEN d.fields[i].dflt.val
                  ELSE IF d.fields[i].name \in DOMAIN changes
                       THEN changes[d.fields[i].name]
                       ELSE d.vals[i]])

\* Lines 241-247: the provided values that are adopted.
useful_kwargs(d, kwargs) ==
    [k \in {j \in DOMAIN kwargs : HasAttr(d, j) /\ ~IsRequired(kwargs[j])} |->
        kwargs[k]]

Ok(v) == [t |-> "ok", v |-> v]

RECURSIVE with_arguments(_, _)
RECURSIVE new_fields(_, _, _, _)
\* Lines 225-227: a field whose type is a declaration class is reconciled
\* with the same provided values.
nested_fields(d, kwargs, acc, i) ==
    IF ~d.fields[i].nested THEN Ok(acc)
    ELSE IF d.vals[i].t # "decl" THEN Raise("AttributeError")
    ELSE LET r == with_arguments(d.vals[i], kwargs)
         IN  IF IsRaise(r) THEN r ELSE Ok(DictSet(acc, d.fields[i].name, r))
\* Lines 228-238: a hidden field takes its static default.
hidden_fields(d, acc, i) ==
    IF ~IsHidden(d.vals[i]) THEN Ok(acc)
    ELSE IF hidden_value(d.fields[i]).t = "ellipsis" THEN Raise("ValueError")
    ELSE Ok(DictSet(acc, d.fields[i].name, hidden_value(d.fields[i])))
\* Lines 223-238, field by field from the i-th on: acc is new_fields so far.
new_fields(d, kwargs, acc, i) ==
    IF i > Len(d.fields) THEN Ok(acc)
    ELSE LET sub == nested_fields(d, kwargs, acc, i)
         IN  IF IsRaise(sub) THEN sub
             ELSE LET hid == hidden_fields(d, sub.v, i)
                  IN  IF IsRaise(hid) THEN hid
                      ELSE new_fields(d, kwargs, hid.v, i + 1)

\* Line 251: new_fields override the adopted provided values.
merged_kwargs(d, kwargs, nf) == DictUpdate(useful_kwargs(d, kwargs), nf)

with_arguments(d, kwargs) ==
    LET nf == new_fields(d, kwargs, EmptyDict, 1)
    IN  IF IsRaise(nf) THEN nf
        ELSE replace(d, merged_kwargs(d, kwargs, nf.v))

----------------------------------------------------------------------------
(* The declarations and calls the exposition engine is run on.             *)

\* Field names: x_y (the field under study), t (an init=False field, as
\* CommandProcessRunner.text), s (a field holding a nested declaration).
XY == <<"x", "_", "y">>
TName == <<"t">>
SName == <<"s">>
\* A name no declaration has (as function_name in the parsed namespace).
QName == <<"q">>
\* CLI names given in metadata or on a sentinel.
NName == <<"n">>
DashN == <<"-", "-", "n">>
MName == <<"m">>
DashM == <<"-", "-", "m">>
XDashY == <<"x", "-", "y">>

V_ABC == Str("ABC")
V_W == Str("W")
\* The value the command line gives.
V_CLI == Str("5")
V_True == [t |-> "bool", b |-> TRUE]
TypeInt == [t |-> "callable", name |-> "int"]

\* The ways the classes of the repository and of its tests declare a field.
FieldDecls(n) ==
    { PlainField(n, NoDefault),
      PlainField(n, Default(V_ABC)),
      PlainField(n, Default(EllipsisV)),
      PlainField(n, Default(REQUIRED_ARGUMENT)),
      field_value(n, V_ABC),
      args(n, <<>>, [default |-> V_ABC]),
      args(n, <<NName>>, EmptyDict),
      args(n, <<DashN>>, [default |-> V_ABC]),
      final_value(n, V_ABC) }

\* The options a sentinel is parameterized with.
SentinelOptions ==
    { <<<<>>, EmptyDict>>,
      <<<<MName>>, EmptyDict>>,
      <<<<DashM>>, EmptyDict>>,
      <<<<XDashY>>, EmptyDict>>,
      <<<<>>, [default |-> V_W]>>,
      <<<<>>, [type |-> TypeInt]>>,
      <<<<DashM>>, [type |-> TypeInt]>> }

ParamSentinels ==
    { SpecialCall(base, id, o[1], o[2]) :
        base \in {REQUIRED_ARGUMENT, OPTIONAL_ARGUMENT, SPECIAL_OPTIONAL_ARGUMENT},
        id \in 1..MaxCopies, o \in SentinelOptions }

FieldValues ==
    {V_ABC, V_W, EllipsisV, REQUIRED_ARGUMENT, OPTIONAL_ARGUMENT, HIDDEN_ARGUMENT}
    \cup ParamSentinels

\* A class with the one field x_y, and the same after the init=False field t.
SimpleDecls ==
    { Decl(<<fd>>, <<v>>) : fd \in FieldDecls(XY), v \in FieldValues }
    \cup
    { Decl(<<InitFalseField(TName, V_True), fd>>, <<V_True, v>>) :
        fd \in FieldDecls(XY), v \in FieldValues }

\* A class holding a nested declaration in s, both with a field x_y.
InnerDecls ==
    { Decl(<<fd>>, <<v>>) :
        fd \in {PlainField(XY, NoDefault), PlainField(XY, Default(V_ABC))},
        v \in {V_W, EllipsisV, REQUIRED_ARGUMENT, OPTIONAL_ARGUMENT, HIDDEN_ARGUMENT} }
NestedDecls ==
    { Decl(<<NestedField(SName), PlainField(XY, Default(V_ABC))>>, <<inner, v>>) :
        inner \in InnerDecls,
        v \in {V_ABC, V_W, REQUIRED_ARGUMENT, OPTIONAL_ARGUMENT, HIDDEN_ARGUMENT} }

Declarations == SimpleDecls \cup NestedDecls

\* The provided values with_arguments is called with.
ProvidedKeys == {XY, TName, SName, QName, RunName}
ProvidedValues == {V_W, EllipsisV, REQUIRED_ARGUMENT, HIDDEN_ARGUMENT}
Provided ==
    {EmptyDict} \cup {[k \in {key} |-> v] : key \in ProvidedKeys, v \in ProvidedValues}

\* ArgumentParser.parse_args on a command line that gives every argument:
\* the namespace, dest -> value.
parse_args(parser) ==
    [n \in {parser.actions[i].dest : i \in 1..Len(parser.actions)} |-> V_CLI]

\* No process is run while the exposition engine or a tree is exercised.
\* The objects the module creates when it is imported: REQUIRED_ARGUMENT,
\* HIDDEN_ARGUMENT and OPTIONAL_ARGUMENT, with no attribute of their own.
SentinelObject(cls, attrs) == [cls |-> cls, attrs |-> attrs]
Singletons ==
    <<SentinelObject("_REQUIRED_ARGUMENT", <<>>),
      SentinelObject("_HIDDEN_ARGUMENT", <<>>),
      SentinelObject("_OPTIONAL_ARGUMENT", <<>>)>>

\* No loader is at work outside the loader's own specification.
InitLoad ==
    /\ plugins = <<>>
    /\ registries = <<>>
    /\ loads = <<>>
    /\ sentinels = Singletons

InitRun ==
    /\ procs = <<>>
    /\ pc = "idle"
    /\ sub_i = 0
    /\ outputs = <<>>
    /\ sub_outputs = <<>>

\* No tree is built while the exposition engine is exercised.
InitTrees ==
    /\ tree = NoneV
    /\ nodes = <<>>
    /\ added = <<>>
    /\ exposed2 = <<>>
    /\ items2 = <<>>
    /\ ncalls = 0
    /\ main_parser = NoneV
    /\ main_args = NoneV
    /\ InitLoad

Init ==
    /\ decl \in Declarations
    /\ call = [op |-> "init"]
    /\ ret = NoneV
    /\ InitTrees
    /\ InitRun

\* self._arguments(add_all_fields=inc)
Arguments(inc) ==
    /\ call.op = "init"
    /\ call' = [op |-> "_arguments", inc |-> inc]
    /\ ret' = [t |-> "specs", v |-> _arguments(decl, inc)]
    /\ UNCHANGED <<decl, treeVars, runVars>>

\* self.add_arguments(parser, add_all_fields=inc) on a fresh parser
AddArguments(inc) ==
    /\ call.op = "init"
    /\ call' = [op |-> "add_arguments", inc |-> inc]
    /\ ret' = add_arguments(EmptyParser, decl, inc)
    /\ UNCHANGED <<decl, treeVars, runVars>>

\* parser.parse_args(...) on the parser add_arguments filled
ParseArgs ==
    /\ call.op = "add_arguments"
    /\ ret.t = "parser"
    /\ call' = [op |-> "parse_args", parser |-> ret]
    /\ ret' = [t |-> "namespace", v |-> parse_args(ret)]
    /\ UNCHANGED <<decl, treeVars, runVars>>

\* self.with_arguments(**kwargs)
WithArguments(kwargs) ==
    /\ call.op = "init"
    /\ call' = [op |-> "with_arguments", kwargs |-> kwargs]
    /\ ret' = with_arguments(decl, kwargs)
    /\ UNCHANGED <<decl, treeVars, runVars>>

\* self.with_arguments(**vars(namespace)), as run_process does
WithParsedArguments ==
    /\ call.op = "parse_args"
    /\ call' = [op |-> "with_parsed_arguments", kwargs |-> ret.v, parser |-> call.parser]
    /\ ret' = with_arguments(decl, ret.v)
    /\ UNCHANGED <<decl, treeVars, runVars>>

\* with_arguments(**kwargs) again, on the declaration it returned
WithArgumentsAgain ==
    /\ call.op = "with_arguments"
    /\ ret.t = "decl"
    /\ call' = [op |-> "with_arguments_again", kwargs |-> call.kwargs, first |-> ret]
    /\ ret' = with_arguments(ret, call.kwargs)
    /\ UNCHANGED <<decl, treeVars, runVars>>

Next ==
    \/ \E inc \in Includes : Arguments(inc)
    \/ \E inc \in Includes : AddArguments(inc)
    \/ ParseArgs
    \/ \E kwargs \in Provided : WithArguments(kwargs)
    \/ WithParsedArguments
    \/ WithArgumentsAgain

Spec == Init /\ [][Next]_vars

----------------------------------------------------------------------------
(* Claims about the exposition engine.  The predicates below restate the   *)
(* claims' cases on the values themselves.                                 *)

HoldsRequired(v) ==
    v = EllipsisV \/ (v.t = "sentinel" /\ v.cls = "_REQUIRED_ARGUMENT")
HoldsOptional(v) ==
    v.t = "sentinel" /\ v.cls \in {"_OPTIONAL_ARGUMENT", "_SPECIAL_OPTIONAL_ARGUMENT"}
HoldsHidden(v) == v.t = "sentinel" /\ v.cls = "_HIDDEN_ARGUMENT"
Accepts(inc, v) == inc = "True" \/ (inc = "not_ellipsis" /\ v # EllipsisV)
HasStaticDefault(f) == f.dflt.kind \in {"default", "factory"}
CarriesOptions(v) ==
    v.t = "sentinel" /\ (v.argparse_args # <<>> \/ v.argparse_kwargs # EmptyDict)
CarriesDefault(v) == v.t = "sentinel" /\ "default" \in DOMAIN v.argparse_kwargs
CarriesName(v) == v.t = "sentinel" /\ v.argparse_args # <<>>
\* The field's value is the very object (or Ellipsis) declared as its default.
IsDeclaredDefault(f, v) ==
    /\ HasStaticDefault(f)
    /\ f.dflt.val.t = v.t
    /\ IF v.t = "sentinel" THEN f.dflt.val.cls = v.cls /\ f.dflt.val.id = v.id
       ELSE f.dflt.val = v
MetaFlagName(f) == f.meta.has /\ f.meta.args # <<>> /\ StartsWith(f.meta.args[1], Dashes)
MetaName(f) == f.meta.has /\ f.meta.args # <<>>
RequiredFields(d, inc) ==
    {i \in 1..Len(d.fields) :
        d.fields[i].init /\ HoldsRequired(d.vals[i]) /\ Accepts(inc, d.vals[i])}
OptionalFields(d, inc) ==
    {i \in 1..Len(d.fields) :
        d.fields[i].init /\ HoldsOptional(d.vals[i]) /\ Accepts(inc, d.vals[i])}
Positional(spec) == ~StartsWith(spec.args[1], Dashes)
\* The name with every underscore replaced by a hyphen.
Hyphenated(n) == [i \in 1..Len(n) |-> IF n[i] = "_" THEN "-" ELSE n[i]]

C2_OptionalIsFieldFlagWithStaticDefault ==
    call.op = "_arguments" =>
        \A i \in OptionalFields(decl, call.inc) :
            LET n == decl.fields[i].name
                f == decl.fields[i]
            IN  /\ n \in DOMAIN ret.v
                /\ ret.v[n].args[1] = Dashes \o Hyphenated(n)
                /\ HasStaticDefault(f) =>
                        /\ "default" \in DOMAIN ret.v[n].kwargs
                        /\ ret.v[n].kwargs["default"] = f.dflt.val

\* C2 as amended: every accepted field left at OPTIONAL gets a spec; its
\* name is '--' + argslug(field name) when neither the metadata nor the
\* sentinel gives a name; its 'default' is the sentinel's own 'default'
\* option when it carries one, else the static default (None without one).
C2_OptionalIsFlagUnlessNamed ==
    call.op = "_arguments" =>
        \A i \in OptionalFields(decl, call.inc) :
            LET n == decl.fields[i].name
                f == decl.fields[i]
                v == decl.vals[i]
            IN  /\ n \in DOMAIN ret.v
                /\ (~MetaName(f) /\ ~CarriesName(v))
                        => ret.v[n].args = <<Dashes \o Hyphenated(n)>>
                /\ "default" \in DOMAIN ret.v[n].kwargs
                /\ ret.v[n].kwargs["default"] =
                        IF CarriesDefault(v) THEN v.argparse_kwargs["default"]
                        ELSE IF HasStaticDefault(f) THEN f.dflt.val ELSE NoneV

\* C2 witness: the field x_y, declared with default "ABC", left at the bare
\* OPTIONAL_ARGUMENT, got --x-y with default "ABC".
C2_Witness ==
    /\ call.op = "_arguments"
    /\ \E i \in OptionalFields(decl, call.inc) :
        /\ decl.vals[i] = OPTIONAL_ARGUMENT
        /\ decl.fields[i].dflt = Default(V_ABC)
        /\ ret.v[decl.fields[i].name].args = <<<<"-", "-", "x", "-", "y">>>>
        /\ ret.v[decl.fields[i].name].kwargs["default"] = V_ABC

C4_DestIsFieldName ==
    /\ (call.op = "add_arguments" /\ ret.t = "parser") =>
            \A j \in 1..Len(ret.actions) : ret.actions[j].dest = ret.actions[j].owner
    /\ (call.op = "with_parsed_arguments" /\ ret.t = "decl"
            /\ \A i \in 1..Len(decl.fields) : decl.vals[i].t # "decl") =>
            \A j \in 1..Len(call.parser.actions) :
                GetAttr(ret, call.parser.actions[j].owner) = V_CLI

\* C4 failing state: add_arguments added, for the field x_y declared with
\* args("n") and left at REQUIRED, an action whose dest is "n".
C4_DestIsMetadataName ==
    /\ call.op = "add_arguments"
    /\ ret.t = "parser"
    /\ \E j \in 1..Len(ret.actions) :
        /\ ret.actions[j].owner = XY
        /\ ret.actions[j].dest = NName
        /\ ret.actions[j].option_strings = <<>>

NoInnerFailure(d) ==
    \A i \in 1..Len(d.fields) :
        d.vals[i].t = "decl" =>
            \A j \in 1..Len(d.vals[i].fields) :
                HoldsHidden(d.vals[i].vals[j]) => HasStaticDefault(d.vals[i].fields[j])
AdoptableKeys(d) ==
    {d.fields[i].name : i \in {j \in 1..Len(d.fields) : d.fields[j].init}}

\* C5 as stated: with_arguments sets every field left at HIDDEN to its
\* static default, also when a value is provided for it, and raises
\* ValueError when such a field has neither default nor factory.  (The
\* provided names are names of init fields and no nested declaration fails,
\* so that nothing else can make the call fail.)
C5_HiddenResolvesToStaticDefault ==
    (call.op = "with_arguments" /\ DOMAIN call.kwargs \subseteq AdoptableKeys(decl)
        /\ NoInnerFailure(decl)) =>
        /\ (\E i \in 1..Len(decl.fields) :
                HoldsHidden(decl.vals[i]) /\ ~HasStaticDefault(decl.fields[i]))
            => ret = Raise("ValueError")
        /\ (\A i \in 1..Len(decl.fields) :
                HoldsHidden(decl.vals[i]) => HasStaticDefault(decl.fields[i]))
            => /\ ret.t = "decl"
               /\ \A i \in 1..Len(decl.fields) :
                    HoldsHidden(decl.vals[i]) => ret.vals[i] = decl.fields[i].dflt.val

\* C5 failing state: the field x_y is declared with the default Ellipsis,
\* holds HIDDEN, and with_arguments raised ValueError.
C5_HiddenWithEllipsisDefaultRaises ==
    /\ call.op = "with_arguments"
    /\ call.kwargs = EmptyDict
    /\ \E i \in 1..Len(decl.fields) :
        /\ HoldsHidden(decl.vals[i])
        /\ decl.fields[i].dflt = Default(EllipsisV)
    /\ ret = Raise("ValueError")

NoHiddenTop(d) == \A i \in 1..Len(d.fields) : ~HoldsHidden(d.vals[i])
NoHiddenDeep(d) ==
    \A i \in 1..Len(d.fields) :
        /\ ~HoldsHidden(d.vals[i])
        /\ d.vals[i].t = "decl" => NoHiddenTop(d.vals[i])
NoHiddenProvided(kwargs) == \A k \in DOMAIN kwargs : ~HoldsHidden(kwargs[k])

\* C6 as stated: with_arguments() returns an equal declaration when none of
\* the declaration's fields holds HIDDEN, and with_arguments applied a
\* second time with the same provided values returns what the first
\* application returned.
C6_ReconcileIsIdempotent ==
    /\ (call.op = "with_arguments" /\ call.kwargs = EmptyDict /\ NoHiddenTop(decl))
            => ret = decl
    /\ call.op = "with_arguments_again" => ret = call.first

\* C6 as amended: with_arguments() returns an equal declaration when no
\* field holds HIDDEN at any nesting depth; a second application with the
\* same provided values returns what the first returned when, in addition,
\* no provided value is HIDDEN.
C6_ReconcileIsIdempotentWithoutHidden ==
    /\ (call.op = "with_arguments" /\ call.kwargs = EmptyDict /\ NoHiddenDeep(decl))
            => ret = decl
    /\ (call.op = "with_arguments_again" /\ NoHiddenDeep(decl)
            /\ NoHiddenProvided(call.kwargs))
            => ret = call.first

\* C6 witness: on a declaration that holds a nested declaration and no
\* HIDDEN, with_arguments() returned an equal declaration, and so did a
\* second application.
C6_Witness ==
    /\ call.op = "with_arguments_again"
    /\ call.kwargs = EmptyDict
    /\ NoHiddenDeep(decl)
    /\ \E i \in 1..Len(decl.fields) : decl.vals[i].t = "decl"
    /\ call.first = decl
    /\ ret = decl

----------------------------------------------------------------------------
(* The registration trees: AttrTree (tree.py), of which NamedTree (load.py) *)
(* is a copy, and AttrTree2 (tree.py).                                      *)

Dot == <<".">>

\* str.join
RECURSIVE Join(_, _)
Join(segs, sep) ==
    IF segs = <<>> THEN <<>>
    ELSE IF Len(segs) = 1 THEN segs[1]
    ELSE segs[1] \o sep \o Join(Tail(segs), sep)

\* str.split('.')
RECURSIVE Split(_)
Split(s) ==
    IF \A i \in 1..Len(s) : s[i] # "."
    THEN <<s>>
    ELSE LET i == CHOOSE i \in 1..Len(s) :
                    s[i] = "." /\ \A j \in 1..(i - 1) : s[j] # "."
         IN  <<SubSeq(s, 1, i - 1)>> \o Split(SubSeq(s, i + 1, Len(s)))

Reversed(l) == [i \in 1..Len(l) |-> l[Len(l) + 1 - i]]

\* The elements of a set in one fixed order (the insertion order of a dict's
\* keys is not kept by the model).
RECURSIVE SetToSeq(_)
SetToSeq(S) ==
    IF S = {} THEN <<>>
    ELSE LET x == CHOOSE x \in S : TRUE IN <<x>> \o SetToSeq(S \ {x})

\* A registered item: ExternalCommand / ExternalProcess, or a test's Dog.
Item(name, id) == [t |-> "item", name |-> name, id |-> id]
\* config.item_name and config.item_value: the defaults (x.name, x.cls), or
\* the identity the tests configure as item_value.
item_name(item) == item.name
item_value(config, item) ==
    IF config.item_value = "cls" THEN [t |-> "cls", of |-> item.id] ELSE item
AttrTreeConfig(expose_leafs_items, value) ==
    [expose_leafs_items |-> expose_leafs_items, item_value |-> value]

\* One AttrTree / NamedTree object.  leafs holds the child names; the child
\* named n of the node at path p is the node at path p \o <<n>>.  attrs are
\* the instance attributes setattr created.
AttrTree(name, root) ==
    [t |-> "AttrTree", name |-> name, root |-> root, exposed |-> EmptyDict,
     leafs |-> {}, attrs |-> EmptyDict]
LeafAttr == [t |-> "leaf"]
\* The attributes every AttrTree has: dataclass fields and methods.
TreeAttrNames ==
    {<<"n", "a", "m", "e">>, <<"c", "o", "n", "f", "i", "g">>, <<"r", "o", "o", "t">>,
     <<"e", "x", "p", "o", "s", "e", "d">>, <<"l", "e", "a", "f", "s">>,
     <<"a", "d", "d", "_", "i", "t", "e", "m">>, <<"a", "s", "_", "l", "i", "s", "t">>,
     <<"a", "s", "_", "d", "i", "c", "t">>, <<"a", "l", "l", "_", "i", "t", "e", "m", "s">>}
TreeHasAttr(node, name) == name \in DOMAIN node.attrs \/ name \in TreeAttrNames

\* _expose_item: the node after it, or the AssertionError.
_expose_item(config, node, item, only_attr) ==
    IF item_name(item) \in node.leafs THEN Raise("AssertionError")
    ELSE [node EXCEPT
            !.exposed = IF ~only_attr THEN DictSet(@, item_name(item), item) ELSE @,
            !.attrs = IF config.expose_leafs_items
                      THEN DictSet(@, item_name(item), item_value(config, item))
                      ELSE @]

\* Lines 162-165: the child group is created unless the node already has an
\* attribute of that name.
NewLeaf(ns, p, leaf_name) ==
    IF TreeHasAttr(ns[p], leaf_name) THEN ns
    ELSE [q \in DOMAIN ns \cup {Append(p, leaf_name)} |->
            IF q = Append(p, leaf_name) THEN AttrTree(leaf_name, FALSE)
            ELSE IF q = p
                 THEN [ns[p] EXCEPT !.leafs = @ \cup {leaf_name},
                                    !.attrs = DictSet(@, leaf_name, LeafAttr)]
                 ELSE ns[q]]

\* add_item on the node at path p: the nodes after the call, what was done
\* before an exception included, and the call's result.
RECURSIVE add_item(_, _, _, _, _)
add_item(config, ns, p, item, hierarchy) ==
    LET exposed == _expose_item(config, ns[p], item, hierarchy # <<>>)
    IN  IF IsRaise(exposed) THEN [nodes |-> ns, ret |-> exposed]
        ELSE LET ns1 == [ns EXCEPT ![p] = exposed]
             IN  IF hierarchy = <<>>
                 THEN [nodes |-> ns1,
                       ret |-> [t |-> "group", leaf_name |-> NoneV, leaf |-> p]]
                 ELSE LET leaf_name == Head(hierarchy)
                          ns2 == NewLeaf(ns1, p, leaf_name)
                      IN  IF leaf_name \notin ns2[p].leafs
                          THEN [nodes |-> ns2, ret |-> Raise("KeyError")]
                          ELSE LET sub == add_item(config, ns2, Append(p, leaf_name),
                                                   item, Tail(hierarchy))
                               IN  IF IsRaise(sub.ret) THEN sub
                                   ELSE [nodes |-> sub.nodes,
                                         ret |-> [t |-> "group",
                                                  leaf_name |-> NameV(leaf_name),
                                                  leaf |-> Append(p, leaf_name)]]

\* A length that counts the items exposed on the node alone.
TreeLen_ownItems(ns, p) == Cardinality(DOMAIN ns[p].exposed)
\* __len__
RECURSIVE TreeLen(_, _)
TreeLen(ns, p) ==
    LET SumLeafs[S \in SUBSET ns[p].leafs] ==
            IF S = {} THEN 0
            ELSE LET l == CHOOSE l \in S : TRUE
                 IN  TreeLen(ns, Append(p, l)) + SumLeafs[S \ {l}]
    IN  Cardinality(DOMAIN ns[p].exposed) + SumLeafs[ns[p].leafs]

\* An _add_node_name that adds the root's name too.
_add_node_name_always(node, l) == Append(l, node.name)
\* _as_list's _add_node_name: the root's name is not added.
_add_node_name(node, l) == IF node.root THEN l ELSE Append(l, node.name)

\* _as_list: (reversed hierarchy, item) for the items exposed on the node at
\* path p, then for those of its child groups.
RECURSIVE _as_list(_, _)
_as_list(ns, p) ==
    LET node == ns[p]
        names == SetToSeq(DOMAIN node.exposed)
        own == [i \in 1..Len(names) |->
                    <<_add_node_name(node, <<names[i]>>), node.exposed[names[i]]>>]
        leafs == SetToSeq(node.leafs)
        OfLeafs[k \in 0..Len(leafs)] ==
            IF k = 0 THEN <<>>
            ELSE LET sub == _as_list(ns, Append(p, leafs[k]))
                 IN  OfLeafs[k - 1] \o
                        [i \in 1..Len(sub) |->
                            <<_add_node_name(node, sub[i][1]), sub[i][2]>>]
    IN  own \o OfLeafs[Len(leafs)]

\* as_list(joiner="."): (dotted path, item)
as_list(ns) ==
    LET l == _as_list(ns, <<>>)
    IN  [i \in 1..Len(l) |-> <<Join(Reversed(l[i][1]), Dot), l[i][2]>>]

\* dict(pairs)[name]: the last pair of that key wins
DictOfPairs(pairs, name) ==
    LET at == {i \in 1..Len(pairs) : pairs[i][1] = name}
    IN  IF at = {} THEN Raise("KeyError")
        ELSE pairs[CHOOSE i \in at : \A j \in at : j <= i][2]

\* AttrTree.__getitem__
AttrTree_getitem(ns, name) == DictOfPairs(as_list(ns), name)

\* AttrItem and its fullpath
AttrItem(path, name, item) == [path |-> path, item_name |-> name, item |-> item]
\* A fullpath that forgets the path.
fullpath_nameOnly(it) == it.item_name
fullpath(it) ==
    IF it.path # <<>> THEN it.path \o Dot \o it.item_name ELSE it.item_name

\* AttrTree2.add_item: the new (_exposed, _items)
add_item2(config, exposed, items, item, path) ==
    LET new_item == AttrItem(path, item_name(item), item)
    IN  [exposed |-> DictSet(exposed, fullpath(new_item), item_value(config, item)),
         items |-> Append(items, new_item)]

_path_is_module(exposed, path) ==
    \E k \in DOMAIN exposed : StartsWith(k, path) /\ k # path

AttrTreeView(path) == [t |-> "AttrTreeView", path |-> path]

\* get_item and get_partial_name (get_partial_name ends with a get_item of
\* a stored key).
get_partial_name(exposed, name) ==
    LET parts == Split(name)
        path == Join(SubSeq(parts, 1, Len(parts) - 1), Dot)
        last == parts[Len(parts)]
        keys == {k \in DOMAIN exposed : StartsWith(k, path) /\ EndsWith(k, last)}
    IN  IF Cardinality(keys) = 1 THEN exposed[CHOOSE k \in keys : TRUE]
        ELSE Raise("AttributeError")
get_item(exposed, name) ==
    IF name \in DOMAIN exposed THEN exposed[name]
    ELSE IF _path_is_module(exposed, name) THEN AttrTreeView(name)
    ELSE get_partial_name(exposed, name)

\* AttrTree2.as_list: the (full path, value) pairs of _exposed
as_list2(exposed) ==
    LET keys == SetToSeq(DOMAIN exposed)
    IN  [i \in 1..Len(keys) |-> <<keys[i], exposed[keys[i]]>>]

----------------------------------------------------------------------------
(* The trees and calls the registration trees are run on.                  *)

AName == <<"a">>
BAName == <<"b", "a">>
PAName == <<"p", ".", "a">>
PSeg == <<"p">>
BPrefix == <<"b">>
RootName == <<"r">>
\* Two items of the same name, one whose name ends with that name, one whose
\* name holds a dot.
TreeItems == {Item(AName, 1), Item(AName, 2), Item(BAName, 1), Item(PAName, 1)}
Segments == {AName, PSeg}
Hierarchies == UNION {[1..n -> Segments] : n \in 0..MaxDepth}
\* Plugin's two trees (load.py, lines 134-145), and AttrTree2 with the
\* default item_value and with the identity the tests configure.
TreeConfigs ==
    {[cls |-> "AttrTree", config |-> AttrTreeConfig(TRUE, "cls")],
     [cls |-> "AttrTree", config |-> AttrTreeConfig(FALSE, "cls")],
     [cls |-> "AttrTree2", config |-> AttrTreeConfig(TRUE, "cls")],
     [cls |-> "AttrTree2", config |-> AttrTreeConfig(TRUE, "identity")]}
FullPathOf(item, hierarchy) == Join(Append(hierarchy, item_name(item)), Dot)
\* The names looked up: on an AttrTree the full paths of the items inserted;
\* on an AttrTree2 the full paths of its items, item names alone, and the
\* first letter of one.
ShortNames == {AName, BAName, PAName, BPrefix}
LookupNames ==
    {FullPathOf(added[i].item, added[i].hierarchy) : i \in 1..Len(added)}
LookupNames2 ==
    ShortNames \cup {fullpath(items2[i]) : i \in 1..Len(items2)}

TreeInit ==
    /\ decl = Decl(<<>>, <<>>)
    /\ call = [op |-> "init"]
    /\ ret = NoneV
    /\ tree \in TreeConfigs
    /\ nodes = [p \in {<<>>} |-> AttrTree(RootName, TRUE)]
    /\ added = <<>>
    /\ exposed2 = EmptyDict
    /\ items2 = <<>>
    /\ ncalls = 0
    /\ main_parser = NoneV
    /\ main_args = NoneV
    /\ InitLoad
    /\ InitRun

\* tree.add_item(item, hierarchy) on an AttrTree / NamedTree
AddItem(item, hierarchy) ==
    /\ tree.cls = "AttrTree"
    /\ ncalls < MaxItems
    /\ LET r == add_item(tree.config, nodes, <<>>, item, hierarchy)
       IN  /\ nodes' = r.nodes
           /\ ret' = r.ret
           /\ added' = IF IsRaise(r.ret) THEN added
                       ELSE Append(added, [item |-> item, hierarchy |-> hierarchy])
    /\ call' = [op |-> "add_item", item |-> item, hierarchy |-> hierarchy]
    /\ ncalls' = ncalls + 1
    /\ UNCHANGED <<decl, tree, exposed2, items2, cliVars, runVars, loadVars, sentinels>>

\* tree.add_item(item, ".".join(hierarchy)) on an AttrTree2
AddItem2(item, hierarchy) ==
    /\ tree.cls = "AttrTree2"
    /\ ncalls < MaxItems
    /\ LET r == add_item2(tree.config, exposed2, items2, item, Join(hierarchy, Dot))
       IN  /\ exposed2' = r.exposed
           /\ items2' = r.items
    /\ ret' = NoneV
    /\ call' = [op |-> "add_item2", item |-> item, path |-> Join(hierarchy, Dot)]
    /\ ncalls' = ncalls + 1
    /\ UNCHANGED <<decl, tree, nodes, added, cliVars, runVars, loadVars, sentinels>>

\* tree[name] on an AttrTree / NamedTree
GetItem(name) ==
    /\ tree.cls = "AttrTree"
    /\ call' = [op |-> "__getitem__", name |-> name]
    /\ ret' = AttrTree_getitem(nodes, name)
    /\ UNCHANGED <<decl, treeVars, runVars>>

\* tree[name] on an AttrTree2: getattr(tree, name), that is get_item(name)
GetItem2(name) ==
    /\ tree.cls = "AttrTree2"
    /\ call' = [op |-> "get_item", name |-> name]
    /\ ret' = get_item(exposed2, name)
    /\ UNCHANGED <<decl, treeVars, runVars>>

\* tree.as_list()
AsList ==
    /\ tree.cls = "AttrTree"
    /\ call' = [op |-> "as_list"]
    /\ ret' = [t |-> "list", v |-> as_list(nodes)]
    /\ UNCHANGED <<decl, treeVars, runVars>>

AsList2 ==
    /\ tree.cls = "AttrTree2"
    /\ call' = [op |-> "as_list2"]
    /\ ret' = [t |-> "list", v |-> as_list2(exposed2)]
    /\ UNCHANGED <<decl, treeVars, runVars>>

TreeNext ==
    \/ \E item \in TreeItems, hierarchy \in Hierarchies : AddItem(item, hierarchy)
    \/ \E item \in TreeItems, hierarchy \in Hierarchies : AddItem2(item, hierarchy)
    \/ \E name \in LookupNames : GetItem(name)
    \/ \E name \in LookupNames2 : GetItem2(name)
    \/ AsList
    \/ AsList2

TreeSpec == TreeInit /\ [][TreeNext]_vars

----------------------------------------------------------------------------
(* Claims about the registration trees.                                    *)

RangeOf(l) == {l[i] : i \in 1..Len(l)}
LastOf(l) == l[Len(l)]
FrontOf(l) == SubSeq(l, 1, Len(l) - 1)
IsPrefixOf(a, b) == Len(a) <= Len(b) /\ SubSeq(b, 1, Len(a)) = a
\* The full dotted path of an insertion: the segments joined by '.', then
\* the item's name.
DottedPath(hierarchy, name) == Join(Append(hierarchy, name), Dot)
DottedPath2(path, name) == IF path = <<>> THEN name ELSE path \o Dot \o name
PathOfAdded(i) == DottedPath(added[i].hierarchy, added[i].item.name)
PathOfItem2(i) == DottedPath2(items2[i].path, items2[i].item_name)
SamePathAdded(i) == {j \in 1..Len(added) : PathOfAdded(j) = PathOfAdded(i)}
SamePathItems2(i) == {j \in 1..Len(items2) : PathOfItem2(j) = PathOfItem2(i)}
MaxOf(S) == CHOOSE m \in S : \A j \in S : j <= m
\* The insertions no later insertion repeated (same node and name in an
\* AttrTree, same full path in an AttrTree2).
LatestAdded ==
    {i \in 1..Len(added) :
        \A j \in (i + 1)..Len(added) :
            ~(added[j].hierarchy = added[i].hierarchy
                /\ added[j].item.name = added[i].item.name)}
LatestItems2 == {i \in 1..Len(items2) : i = MaxOf(SamePathItems2(i))}

\* C7 as stated: in every tree state, looking up the full dotted path of
\* any item inserted so far returns that item.
C7_FullPathLookupReturnsEveryItem ==
    /\ tree.cls = "AttrTree" =>
        \A i \in 1..Len(added) :
            AttrTree_getitem(nodes, PathOfAdded(i)) = added[i].item
    /\ tree.cls = "AttrTree2" =>
        \A i \in 1..Len(items2) :
            get_item(exposed2, PathOfItem2(i)) = items2[i].item

\* C7 as amended: looking up the full dotted path of an inserted item
\* returns an item inserted under that same full dotted path, hence the item
\* itself when no other insertion used that path: in an AttrTree / NamedTree
\* the last one inserted when all of them went to the same node, in an
\* AttrTree2 what the configured item_value gives for the last one inserted.
C7_FullPathLookupReturnsLatestItem ==
    /\ tree.cls = "AttrTree" =>
        \A i \in 1..Len(added) :
            LET got == AttrTree_getitem(nodes, PathOfAdded(i))
                same == SamePathAdded(i)
            IN  /\ got \in {added[j].item : j \in same}
                /\ (\A j \in same : added[j].hierarchy = added[i].hierarchy)
                        => got = added[MaxOf(same)].item
    /\ tree.cls = "AttrTree2" =>
        \A i \in 1..Len(items2) :
            get_item(exposed2, PathOfItem2(i))
                = item_value(tree.config, items2[MaxOf(SamePathItems2(i))].item)

\* C7 witness: three items were inserted in an AttrTree / NamedTree, the
\* first one two groups deep, and tree[its full path] returned it.
C7_Witness ==
    /\ tree.cls = "AttrTree"
    /\ call.op = "__getitem__"
    /\ Len(added) = 3
    /\ Len(added[1].hierarchy) = 2
    /\ call.name = PathOfAdded(1)
    /\ SamePathAdded(1) = {1}
    /\ ret = added[1].item

\* C8 as stated: no node of an AttrTree / NamedTree has a name that is both
\* a child group (leafs) and a directly exposed item (exposed).
C8_NoNameIsBothGroupAndItem ==
    tree.cls = "AttrTree" =>
        \A p \in DOMAIN nodes : nodes[p].leafs \cap DOMAIN nodes[p].exposed = {}

\* C8 failing state: with expose_leafs_items false, an item was stored at the
\* root, then add_item with a hierarchy starting with the item's name
\* returned normally: the name is an item and a group of the root.
C8_LeafThenGroupCollides ==
    /\ tree.cls = "AttrTree"
    /\ ~tree.config.expose_leafs_items
    /\ call.op = "add_item"
    /\ ~IsRaise(ret)
    /\ call.hierarchy # <<>>
    /\ Head(call.hierarchy) \in DOMAIN nodes[<<>>].exposed
    /\ Head(call.hierarchy) \in nodes[<<>>].leafs

\* The stored paths whose last segment is the last segment of the name
\* looked up and whose groups start with the name's other segments.
NamedBy(name) ==
    {k \in DOMAIN exposed2 :
        /\ LastOf(Split(k)) = LastOf(Split(name))
        /\ IsPrefixOf(FrontOf(Split(name)), FrontOf(Split(k)))}

\* C9 as stated: a lookup that is neither a stored full path nor a group
\* returns the stored item when exactly one stored path has the name as
\* last segment under the prefix, and raises AttributeError otherwise.
C9_ShortNameLookupIsBySegment ==
    (call.op = "get_item" /\ call.name \notin DOMAIN exposed2
        /\ ~_path_is_module(exposed2, call.name)) =>
        IF Cardinality(NamedBy(call.name)) = 1
        THEN ret = exposed2[CHOOSE k \in NamedBy(call.name) : TRUE]
        ELSE ret = Raise("AttributeError")

\* C9 failing state: the tree stores p.ba and p.a, and looking up "a"
\* raised AttributeError.
C9_SuffixMakesNameAmbiguous ==
    /\ tree.cls = "AttrTree2"
    /\ call.op = "get_item"
    /\ call.name = AName
    /\ DOMAIN exposed2 = {PSeg \o Dot \o BAName, PSeg \o Dot \o AName}
    /\ ret = Raise("AttributeError")

\* C10 as stated: for every item inserted with hierarchy h and name n, the
\* pair ('.'.join(h + [n]), item) is in as_list().
C10_AsListHoldsEveryInsertedItem ==
    /\ tree.cls = "AttrTree" =>
        \A i \in 1..Len(added) :
            <<PathOfAdded(i), added[i].item>> \in RangeOf(as_list(nodes))
    /\ tree.cls = "AttrTree2" =>
        \A i \in 1..Len(items2) :
            <<PathOfItem2(i), items2[i].item>> \in RangeOf(as_list2(exposed2))

\* C10 as amended: as_list() holds exactly, each once, the pairs (full dotted
\* path without the root's name, item) of the insertions that no later
\* insertion repeated (same node and name in an AttrTree / NamedTree, same
\* full path in an AttrTree2, whose pairs hold the configured item_value).
C10_AsListHoldsLatestItems ==
    /\ tree.cls = "AttrTree" =>
        /\ RangeOf(as_list(nodes))
                = {<<PathOfAdded(i), added[i].item>> : i \in LatestAdded}
        /\ Len(as_list(nodes)) = Cardinality(LatestAdded)
    /\ tree.cls = "AttrTree2" =>
        /\ RangeOf(as_list2(exposed2))
                = {<<PathOfItem2(i), item_value(tree.config, items2[i].item)>> :
                        i \in LatestItems2}
        /\ Len(as_list2(exposed2)) = Cardinality(LatestItems2)

\* C10 witness: ba was inserted at p.a and at p, a at the root, and
\* as_list() returned p.a.ba, p.ba and a with their items.
C10_Witness ==
    /\ tree.cls = "AttrTree"
    /\ call.op = "as_list"
    /\ RangeOf(ret.v) =
        {<<Join(<<PSeg, AName, BAName>>, Dot), Item(BAName, 1)>>,
         <<Join(<<PSeg, BAName>>, Dot), Item(BAName, 1)>>,
         <<AName, Item(AName, 1)>>}

----------------------------------------------------------------------------
(* The process composition layer (my/commands/common.py): the runnables    *)
(* and their composition with '|'.                                          *)

TextName == <<"t", "e", "x", "t">>
CmdName == <<"c", "m", "d">>
CommandWord == <<"c", "o", "m", "m", "a", "n", "d">>

\* Command(cmd): the dataclass with the init=False field text (inherited
\* from CommandProcessRunner) and the field cmd = args("command").
Command(cmd) ==
    Decl(<<InitFalseField(TextName, V_True), args(CmdName, <<CommandWord>>, EmptyDict)>>,
         <<V_True, cmd>>)

\* SequentialProcessRunner(*subprocesses, piped=piped)
SequentialProcessRunner(subprocesses, piped) ==
    [t |-> "Sequential", subprocesses |-> subprocesses, piped |-> piped]

\* StdinConverter(target, converter); the converter is a function the
\* model knows by name only.
StdinConverter(target, converter) ==
    [t |-> "StdinConverter", target |-> target, converter |-> converter]

\* isinstance(x, ProcessRunner)
IsProcessRunner(x) == x.t \in {"decl", "Sequential", "StdinConverter"}

\* An __or__ that extends every Sequential, piped or not.
__or___extendAny(self, other) ==
    IF ~IsProcessRunner(other) THEN Raise("AssertionError")
    ELSE IF other.t = "StdinConverter"
         THEN SequentialProcessRunner(<<self, other>>, FALSE)
         ELSE IF self.t = "Sequential"
              THEN SequentialProcessRunner(Append(self.subprocesses, other), TRUE)
              ELSE SequentialProcessRunner(<<self, other>>, TRUE)
\* ProcessRunner.__or__
__or__(self, other) ==
    IF ~IsProcessRunner(other) THEN Raise("AssertionError")
    ELSE IF other.t = "StdinConverter"
         THEN SequentialProcessRunner(<<self, other>>, FALSE)
         ELSE IF self.t = "Sequential"
              THEN IF self.piped
                   THEN SequentialProcessRunner(Append(self.subprocesses, other), TRUE)
                   ELSE SequentialProcessRunner(<<self, other>>, TRUE)
              ELSE SequentialProcessRunner(<<self, other>>, TRUE)

\* The plain runnables a composition is made of: two commands, a command
\* with a hole wrapped in a converter.
CmdA == Command(Str("a"))
CmdB == Command(Str("b"))
Conv == StdinConverter(Command(EllipsisV), "converter")
PlainRunnables == {CmdA, CmdB, Conv}
\* The right operands of '|': the plain runnables, parenthesized
\* compositions of them, Sequentials built directly, and a value that is no
\* runnable.
Operands ==
    PlainRunnables
    \cup {__or__(a, b) : a \in {CmdA, CmdB}, b \in PlainRunnables}
    \cup {SequentialProcessRunner(<<CmdA, CmdB>>, FALSE),
          SequentialProcessRunner(<<>>, TRUE)}
    \cup {V_ABC}

\* The runnables a runnable is made of, itself included.
RECURSIVE Runners(_)
Runners(r) ==
    IF r.t = "Sequential"
    THEN LET Sum[k \in 0..Len(r.subprocesses)] ==
                IF k = 0 THEN 1 ELSE Sum[k - 1] + Runners(r.subprocesses[k])
         IN  Sum[Len(r.subprocesses)]
    ELSE 1

PipeInit ==
    /\ decl \in PlainRunnables \cup {SequentialProcessRunner(<<CmdA, CmdB>>, FALSE)}
    /\ call = [op |-> "init"]
    /\ ret = NoneV
    /\ InitTrees
    /\ InitRun

\* decl | other, the result being the left operand of the next '|'
Or(other) ==
    /\ Runners(decl) < MaxRunners
    /\ call' = [op |-> "__or__", self |-> decl, other |-> other]
    /\ ret' = __or__(decl, other)
    /\ decl' = IF IsRaise(__or__(decl, other)) THEN decl ELSE __or__(decl, other)
    /\ UNCHANGED <<treeVars, runVars>>

PipeNext == \E other \in Operands : Or(other)

PipeSpec == PipeInit /\ [][PipeNext]_vars

----------------------------------------------------------------------------
(* Claims about composition.                                               *)

IsSequential(r) == r.t = "Sequential"
IsPipedSequential(r) == r.t = "Sequential" /\ r.piped
IsConverter(r) == r.t = "StdinConverter"

\* C11 as stated: a | b is a Sequential; when b is no StdinConverter and a
\* or b is a piped Sequential, it is piped, it holds the subprocesses of the
\* piped operand extended with the other operand, and the piped operand is
\* not nested in it; for two plain runnables it is Sequential(a, b, piped).
C11_EitherPipedSideIsExtended ==
    (call.op = "__or__" /\ IsProcessRunner(call.other)) =>
        /\ IsSequential(ret)
        /\ (~IsConverter(call.other) /\ IsPipedSequential(call.self)) =>
                /\ ret.piped
                /\ ret.subprocesses = Append(call.self.subprocesses, call.other)
        /\ (~IsConverter(call.other) /\ ~IsPipedSequential(call.self)
                /\ IsPipedSequential(call.other)) =>
                /\ ret.piped
                /\ ret.subprocesses = <<call.self>> \o call.other.subprocesses
        /\ (~IsSequential(call.self) /\ ~IsSequential(call.other)
                /\ ~IsConverter(call.other)) =>
                ret = SequentialProcessRunner(<<call.self, call.other>>, TRUE)

\* C11 as amended: a | b is a Sequential; when b is no StdinConverter and a
\* is a piped Sequential, it is the piped Sequential of a's subprocesses
\* followed by b (b kept as one element); in every other case with b no
\* StdinConverter, a piped Sequential on the right included, it is
\* Sequential(a, b, piped=True).
C11_PipedLeftSideIsExtended ==
    (call.op = "__or__" /\ IsProcessRunner(call.other)) =>
        /\ IsSequential(ret)
        /\ (~IsConverter(call.other) /\ IsPipedSequential(call.self)) =>
                ret = SequentialProcessRunner(
                        Append(call.self.subprocesses, call.other), TRUE)
        /\ (~IsConverter(call.other) /\ ~IsPipedSequential(call.self)) =>
                ret = SequentialProcessRunner(<<call.self, call.other>>, TRUE)

\* C11 witness: (a | b) | b was composed and is the flat piped Sequential of
\* a, b and b.
C11_Witness ==
    /\ call.op = "__or__"
    /\ call.self = SequentialProcessRunner(<<CmdA, CmdB>>, TRUE)
    /\ call.other = CmdB
    /\ ret = SequentialProcessRunner(<<CmdA, CmdB, CmdB>>, TRUE)

\* The composition holds a StdinConverter at some depth.
RECURSIVE ContainsConverter(_)
ContainsConverter(r) ==
    \/ r.t = "StdinConverter"
    \/ r.t = "Sequential"
        /\ \E i \in 1..Len(r.subprocesses) : ContainsConverter(r.subprocesses[i])

\* C12 as stated: every composition built with '|' that holds a
\* StdinConverter is a Sequential that is not piped.
C12_ConverterDemotesToNonPiped ==
    (call.op = "__or__" /\ ~IsRaise(ret) /\ ContainsConverter(ret)) =>
        IsSequential(ret) /\ ~ret.piped

\* C12 failing state: Command("a") | StdinConverter(...) | Command("b") is a
\* piped Sequential.
C12_CommandAfterConverterIsPiped ==
    /\ call.op = "__or__"
    /\ call.self = SequentialProcessRunner(<<CmdA, Conv>>, FALSE)
    /\ call.other = CmdB
    /\ ret.piped

----------------------------------------------------------------------------
(* Running the runnables (my/commands/common.py): Command.run and          *)
(* SequentialProcessRunner.run, with the operating-system processes they   *)
(* start.  A process writes its text to its stdout and exits on its own;   *)
(* run() waits for it.                                                      *)

\* The newline character; the characters a process writes besides it show
\* which process wrote them.
NL == "\n"
Letter(k) == ToString(k)

IntV(n) == [t |-> "int", v |-> n]
List(l) == [t |-> "list", v |-> l]

\* subprocess.CalledProcessError(returncode, cmd)
CalledProcessError(returncode, cmd) ==
    [t |-> "raise", exc |-> "CalledProcessError", returncode |-> returncode, cmd |-> cmd]

\* str.split(sep), sep one character
RECURSIVE SplitBy(_, _)
SplitBy(s, sep) ==
    IF \A i \in 1..Len(s) : s[i] # sep
    THEN <<s>>
    ELSE LET i == CHOOSE i \in 1..Len(s) :
                    s[i] = sep /\ \A j \in 1..(i - 1) : s[j] # sep
         IN  <<SubSeq(s, 1, i - 1)>> \o SplitBy(SubSeq(s, i + 1, Len(s)), sep)

\* Command.run, lines 131-139: readline() until it returns nothing, each
\* line yielded without its last character.
RECURSIVE ReadLines(_)
ReadLines(text) ==
    IF text = <<>> THEN <<>>
    ELSE IF \E i \in 1..Len(text) : text[i] = NL
         THEN LET i == CHOOSE i \in 1..Len(text) :
                         text[i] = NL /\ \A j \in 1..(i - 1) : text[j] # NL
              IN  <<SubSeq(text, 1, i - 1)>> \o ReadLines(SubSeq(text, i + 1, Len(text)))
         ELSE <<SubSeq(text, 1, Len(text) - 1)>>

\* SequentialProcessRunner.run, lines 239-243: read().split("\n")[:-1]
PipedLines(text) ==
    LET parts == SplitBy(text, NL) IN SubSeq(parts, 1, Len(parts) - 1)

\* "\n".join(lines)
JoinLines(lines) == Join(lines, <<NL>>)

\* subprocess.Popen(cmd, stdin=stdin, stdout=PIPE): a running process.
PIPE == [t |-> "PIPE"]
StdoutOf(k) == [t |-> "stdout", of |-> k]
Popen(cmd, stdin) ==
    [args |-> cmd, stdin |-> stdin, state |-> "running",
     returncode |-> NoneV, stdout |-> <<>>]

\* prepare_cmd: finalize_cmd().format(**kwargs); Ellipsis has no format.
prepare_cmd(c) ==
    IF GetAttr(c, CmdName).t = "str" THEN GetAttr(c, CmdName)
    ELSE Raise("AttributeError")

\* The converters of the StdinConverters the model runs: "converter" makes
\* the command out of the text it is given, "list_converter" makes the
\* command of every subprocess of its target out of it.
ConvertedCmd(output) == [t |-> "str", s |-> "converted", input |-> output]
Dict(d) == [t |-> "dict", v |-> d]
SubprocessesName == <<"s", "u", "b", "p", "r", "o", "c", "e", "s", "s", "e", "s">>
PipedName == <<"p", "i", "p", "e", "d">>
ListKey(name) == name \o <<"[", "]">>
converter(name, output) ==
    IF name = "list_converter"
    THEN [k \in {ListKey(SubprocessesName)} |->
            Dict([j \in {CmdName} |-> ConvertedCmd(output)])]
    ELSE [k \in {CmdName} |-> ConvertedCmd(output)]

\* hasattr / getattr on a runnable: the fields of a declaration, the two
\* attributes of a Sequential.
ObjHasAttr(obj, name) ==
    CASE obj.t = "decl" -> HasAttr(obj, name)
      [] obj.t = "Sequential" -> name \in {SubprocessesName, PipedName, RunName}
      [] OTHER -> FALSE
ObjGetAttr(obj, name) ==
    IF obj.t = "decl" THEN GetAttr(obj, name)
    ELSE IF name = SubprocessesName THEN List(obj.subprocesses)
    ELSE [t |-> "bool", b |-> obj.piped]

\* smart_replace(obj, **kwargs): a key 'name[]' replaces in every element of
\* the list obj.name, with the keys the element has; a dict value replaces
\* in obj.name; then dataclasses.replace, which hands every init field to
\* the class -- SequentialProcessRunner.__init__(*subprocesses, piped)
\* refuses the keyword 'subprocesses', and a value that is no dataclass is
\* refused by replace itself.
RECURSIVE smart_replace(_, _)
new_props(obj, k, v) ==
    IF EndsWith(k, <<"[", "]">>)
    THEN LET real_k == SubSeq(k, 1, Len(k) - 2)
         IN  IF ~ObjHasAttr(obj, real_k) THEN Raise("AttributeError")
             ELSE LET obj_list == ObjGetAttr(obj, real_k).v
                      es == [i \in 1..Len(obj_list) |->
                                smart_replace(obj_list[i],
                                    [k_ \in {j \in DOMAIN v.v : ObjHasAttr(obj_list[i], j)}
                                        |-> v.v[k_]])]
                  IN  IF \E i \in 1..Len(es) : IsRaise(es[i])
                      THEN es[CHOOSE i \in 1..Len(es) :
                                IsRaise(es[i]) /\ \A j \in 1..(i - 1) : ~IsRaise(es[j])]
                      ELSE List(es)
    ELSE IF v.t = "dict"
         THEN IF ~ObjHasAttr(obj, k) THEN Raise("AttributeError")
              ELSE smart_replace(ObjGetAttr(obj, k), v.v)
         ELSE v
smart_replace(obj, kwargs) ==
    LET props == [k \in DOMAIN kwargs |-> new_props(obj, k, kwargs[k])]
        real(k) == IF EndsWith(k, <<"[", "]">>) THEN SubSeq(k, 1, Len(k) - 2) ELSE k
    IN  IF \E k \in DOMAIN props : IsRaise(props[k])
        THEN props[CHOOSE k \in DOMAIN props : IsRaise(props[k])]
        ELSE IF obj.t # "decl" THEN Raise("TypeError")
        ELSE replace(obj, [n \in {real(k) : k \in DOMAIN props} |->
                              props[CHOOSE k \in DOMAIN props : real(k) = n]])

\* A run that does not look at the exit status.
run_result_ignoreExit(proc) == Ok(ReadLines(proc.stdout))
\* Command.run once the process has exited: the lines it yielded, and the
\* CalledProcessError it ends with when the exit status is not 0.
run_result(proc) ==
    IF proc.returncode # IntV(0)
    THEN CalledProcessError(proc.returncode, proc.args)
    ELSE Ok(ReadLines(proc.stdout))

\* An extend that keeps the last sub-runnable's lines only.
extend_replace(outs, lines) == lines
\* outputs.extend(sub_outputs)
extend(outs, lines) == outs \o lines

\* SequentialProcessRunner._run_async on subprocesses[i..]: the processes
\* started and the last one (processes[-1]), or the exception with the
\* processes started before it.
RECURSIVE _run_async(_, _, _, _, _)
_run_async(subs, i, ps, stdin, started) ==
    IF i > Len(subs)
    THEN IF started = 0 THEN [procs |-> ps, last |-> Raise("IndexError")]
         ELSE [procs |-> ps, last |-> IntV(started)]
    ELSE IF subs[i].t = "StdinConverter"
         THEN [procs |-> ps, last |-> Raise("AttributeError")]
    ELSE IF subs[i].t = "Sequential"
         THEN LET r == _run_async(subs[i].subprocesses, 1, ps, stdin, 0)
              IN  IF IsRaise(r.last) THEN r
                  ELSE _run_async(subs, i + 1, r.procs, StdoutOf(r.last.v), r.last.v)
    ELSE IF IsRaise(prepare_cmd(subs[i]))
         THEN [procs |-> ps, last |-> prepare_cmd(subs[i])]
    ELSE LET ps1 == Append(ps, Popen(prepare_cmd(subs[i]), stdin))
         IN  _run_async(subs, i + 1, ps1, StdoutOf(Len(ps1)), Len(ps1))

\* The exit statuses and the texts of a process: nothing, one line, a line
\* followed by text without newline.
ExitCodes == {0, 1}
Texts(k) == {<<>>, <<Letter(k), NL>>, <<Letter(k), NL, Letter(k)>>}

\* A converter whose target is a Sequential.
ConvSeq == StdinConverter(SequentialProcessRunner(<<Command(EllipsisV)>>, FALSE),
                          "list_converter")
RunSubs == UNION {[1..n -> {CmdA, Conv, ConvSeq}] : n \in 0..MaxSubs}
Runnables ==
    {CmdA} \cup {SequentialProcessRunner(subs, piped) :
                    subs \in RunSubs, piped \in BOOLEAN}

RunInit ==
    /\ decl \in Runnables
    /\ call = [op |-> "init"]
    /\ ret = NoneV
    /\ InitTrees
    /\ InitRun

\* Command.run up to the polling loop: the process is started.
CommandRun ==
    /\ pc = "idle"
    /\ decl.t = "decl"
    /\ call' = [op |-> "run"]
    /\ procs' = <<Popen(prepare_cmd(decl), PIPE)>>
    /\ pc' = "command"
    /\ UNCHANGED <<decl, ret, treeVars, sub_i, outputs, sub_outputs>>

\* Command.run from the exit of the process on.
CommandDone ==
    /\ pc = "command"
    /\ procs[1].state = "exited"
    /\ outputs' = ReadLines(procs[1].stdout)
    /\ IF IsRaise(run_result(procs[1]))
       THEN ret' = run_result(procs[1]) /\ pc' = "raised"
       ELSE ret' = List(run_result(procs[1]).v) /\ pc' = "returned"
    /\ UNCHANGED <<decl, call, treeVars, procs, sub_i, sub_outputs>>

\* SequentialProcessRunner.run, piped False: up to the loop.
SequentialRun ==
    /\ pc = "idle"
    /\ decl.t = "Sequential"
    /\ ~decl.piped
    /\ call' = [op |-> "run"]
    /\ pc' = "loop"
    /\ sub_i' = 1
    /\ outputs' = <<>>
    /\ sub_outputs' = <<>>
    /\ UNCHANGED <<decl, ret, treeVars, procs>>

\* The loop reaches a sub-runnable: its process is started (the target of a
\* StdinConverter after smart_replace with what the converter makes of the
\* previous sub-runnable's lines).
SubStart ==
    /\ pc = "loop"
    /\ sub_i <= Len(decl.subprocesses)
    /\ LET sub == decl.subprocesses[sub_i]
           process == IF sub.t = "StdinConverter"
                      THEN smart_replace(sub.target,
                                         converter(sub.converter, JoinLines(sub_outputs)))
                      ELSE sub
       IN  IF IsRaise(process) \/ IsRaise(prepare_cmd(process))
           THEN /\ ret' = IF IsRaise(process) THEN process ELSE prepare_cmd(process)
                /\ pc' = "raised"
                /\ procs' = procs
           ELSE /\ procs' = Append(procs, Popen(prepare_cmd(process), PIPE))
                /\ pc' = "sub"
                /\ ret' = ret
    /\ UNCHANGED <<decl, call, treeVars, sub_i, outputs, sub_outputs>>

\* The sub-runnable's process has exited: its lines are added, or its
\* CalledProcessError is raised again.  What a StdinConverter returned is a
\* generator, used up by extend.
SubDone ==
    /\ pc = "sub"
    /\ procs[Len(procs)].state = "exited"
    /\ LET r == run_result(procs[Len(procs)])
       IN  IF IsRaise(r)
           THEN /\ ret' = r
                /\ pc' = "raised"
                /\ UNCHANGED <<sub_i, outputs, sub_outputs>>
           ELSE /\ outputs' = extend(outputs, r.v)
                /\ sub_outputs' = IF decl.subprocesses[sub_i].t = "StdinConverter"
                                  THEN <<>> ELSE r.v
                /\ sub_i' = sub_i + 1
                /\ pc' = "loop"
                /\ ret' = ret
    /\ UNCHANGED <<decl, call, treeVars, procs>>

\* The loop is over: return outputs.
SequentialReturn ==
    /\ pc = "loop"
    /\ sub_i > Len(decl.subprocesses)
    /\ ret' = List(outputs)
    /\ pc' = "returned"
    /\ UNCHANGED <<decl, call, treeVars, procs, sub_i, outputs, sub_outputs>>

\* SequentialProcessRunner.run, piped True: _run_async starts the chain.
PipedRun ==
    /\ pc = "idle"
    /\ decl.t = "Sequential"
    /\ decl.piped
    /\ call' = [op |-> "run"]
    /\ LET r == _run_async(decl.subprocesses, 1, <<>>, PIPE, 0)
       IN  /\ procs' = r.procs
           /\ IF IsRaise(r.last)
              THEN ret' = r.last /\ pc' = "raised"
              ELSE ret' = ret /\ pc' = "wait"
    /\ outputs' = <<>>
    /\ UNCHANGED <<decl, treeVars, sub_i, sub_outputs>>

\* proc.wait() returned: the last process's stdout is read and split.
PipedDone ==
    /\ pc = "wait"
    /\ procs[Len(procs)].state = "exited"
    /\ outputs' = PipedLines(procs[Len(procs)].stdout)
    /\ ret' = List(PipedLines(procs[Len(procs)].stdout))
    /\ pc' = "returned"
    /\ UNCHANGED <<decl, call, treeVars, procs, sub_i, sub_outputs>>

\* The operating system: a running process exits, having written its text.
ProcExit(k, code, text) ==
    /\ k \in 1..Len(procs)
    /\ procs[k].state = "running"
    /\ procs' = [procs EXCEPT ![k] = [@ EXCEPT !.state = "exited",
                                               !.returncode = IntV(code),
                                               !.stdout = text]]
    /\ UNCHANGED <<decl, call, ret, treeVars, pc, sub_i, outputs, sub_outputs>>

RunNext ==
    \/ CommandRun
    \/ CommandDone
    \/ SequentialRun
    \/ SubStart
    \/ SubDone
    \/ SequentialReturn
    \/ PipedRun
    \/ PipedDone
    \/ \E k \in 1..MaxSubs, code \in ExitCodes :
            \E text \in Texts(k) : ProcExit(k, code, text)

RunSpec == RunInit /\ [][RunNext]_vars

----------------------------------------------------------------------------
(* Claims about running.                                                   *)

RECURSIVE ConcatAll(_)
ConcatAll(seqs) == IF seqs = <<>> THEN <<>> ELSE Head(seqs) \o ConcatAll(Tail(seqs))
IsNonPiped(r) == r.t = "Sequential" /\ ~r.piped
Succeeded(p) == p.state = "exited" /\ p.returncode = IntV(0)
Failed(p) == p.state = "exited" /\ p.returncode # IntV(0)
\* The lines the k-th sub-runnable's run yielded from its process.
YieldedBy(k) == ReadLines(procs[k].stdout)
\* The lines of a text: its pieces between newlines, the text after the
\* last newline included when there is some.
LinesOf(text) ==
    LET parts == SplitBy(text, NL)
    IN  IF parts[Len(parts)] = <<>> THEN SubSeq(parts, 1, Len(parts) - 1) ELSE parts

C14_NonZeroExitIsPropagated ==
    /\ (pc = "returned" /\ ~IsPipedSequential(decl)) =>
            \A k \in 1..Len(procs) : Succeeded(procs[k])
    /\ (pc = "returned" /\ IsPipedSequential(decl)) =>
            Succeeded(procs[Len(procs)])
    /\ (pc = "raised" /\ ~IsPipedSequential(decl) /\ procs # <<>>
            /\ Failed(procs[Len(procs)])) =>
            ret = CalledProcessError(procs[Len(procs)].returncode,
                                     procs[Len(procs)].args)

\* C14 failing state: a piped Sequential returned although its terminal
\* process exited with status 1.
C14_PipedTerminalFailureIsSwallowed ==
    /\ IsPipedSequential(decl)
    /\ pc = "returned"
    /\ procs[Len(procs)].returncode = IntV(1)
    /\ ret.t = "list"

\* C15 as stated: a piped Sequential gives each process the stdout of the
\* one before it as stdin, returns once the terminal process has exited,
\* and returns exactly the lines of the terminal process's text.
C15_PipedReturnsTerminalLines ==
    IsPipedSequential(decl) =>
        /\ \A k \in 1..Len(procs) :
            procs[k].stdin = IF k = 1 THEN PIPE ELSE StdoutOf(k - 1)
        /\ pc = "returned" =>
            /\ procs[Len(procs)].state = "exited"
            /\ ret = List(LinesOf(procs[Len(procs)].stdout))

\* C15 failing state: the terminal process of a piped Sequential wrote a
\* line and then text without newline; the run returned the line alone.
C15_UnterminatedLineIsDropped ==
    /\ IsPipedSequential(decl)
    /\ pc = "returned"
    /\ Len(procs) = 2
    /\ procs[2].stdout = <<Letter(2), NL, Letter(2)>>
    /\ ret = List(<< <<Letter(2)>> >>)

----------------------------------------------------------------------------
(* The command line: Plugin.add_process, Plugin.add_arguments,             *)
(* NamedTree.add_arguments over argparse subparsers, and main's dispatch   *)
(* through args.retrieve_func(args.function_name).                         *)

\* An ExternalProcess: a named runnable registered under an export path.
ExternalProcess(name, process, export_path) ==
    [t |-> "item", name |-> name, process |-> process, export_path |-> export_path]
\* The runnable an entry point loads; add_arguments and run are not looked into.
Process(name, export_path) == [t |-> "process", name |-> name, at |-> export_path]

\* Plugin.hierarchy_for_process: None is the empty hierarchy add_item tests
\* with 'not hierarchy'.
hierarchy_for_process(process) ==
    IF process.export_path # <<>> THEN Split(process.export_path) ELSE <<>>

\* Plugin._processes as constructed.
ProcessesConfig == AttrTreeConfig(FALSE, "cls")
ProcessesRoot == [p \in {<<>>} |-> AttrTree(RootName, TRUE)]

\* Plugin k's name, and its _processes: the first plugin's is the tree under
\* construction, the others hold one process each.
PluginName(k) == <<"p", "l", "u", "g", ToString(k)>>
OtherProcess == ExternalProcess(BAName, Process(BAName, <<>>), <<>>)
PluginProcesses(k) ==
    IF k = 1 THEN nodes
    ELSE add_item(ProcessesConfig, ProcessesRoot, <<>>, OtherProcess,
                  hierarchy_for_process(OtherProcess)).nodes

\* argparse.ArgumentParser(): its set_defaults values, whether add_subparsers
\* was called on it, and the process whose arguments it received.
ArgumentParser == [defaults |-> EmptyDict, subparsers |-> FALSE, process |-> NoneV]
\* A parser with its subcommand parsers: at[<<>>] is the parser itself, at[q]
\* the parser reached by the subcommands q; plugins counts the calls of
\* Plugin.add_arguments made on it.
Parsers(at, nplugins) == [t |-> "ArgumentParser", at |-> at, plugins |-> nplugins]
Namespace(d) == [t |-> "Namespace", v |-> d]

\* parser.set_defaults(**d) on the parser at pp
set_defaults(ps, pp, d) ==
    [ps EXCEPT !.at = [@ EXCEPT ![pp].defaults = DictUpdate(@, d)]]

\* parser.add_subparsers(): argparse refuses a second one (self.error)
add_subparsers(ps, pp) ==
    IF ps.at[pp].subparsers THEN Raise("SystemExit")
    ELSE [ps EXCEPT !.at = [@ EXCEPT ![pp].subparsers = TRUE]]

\* this_parser.add_parser(name): a fresh parser registered under name.  With
\* conflict_check (Python 3.11 and later) a name already registered is an
\* ArgumentError; without it, the new parser replaces the registered one.
add_parser(ps, pp, name, conflict_check) ==
    LET q == Append(pp, name)
        Under(r) == Len(r) >= Len(q) /\ SubSeq(r, 1, Len(q)) = q
    IN  IF q \in DOMAIN ps.at /\ conflict_check THEN Raise("ArgumentError")
        ELSE [ps EXCEPT !.at =
                [r \in {r \in DOMAIN ps.at : ~Under(r)} \cup {q} |->
                    IF r = q THEN ArgumentParser ELSE ps.at[r]]]

\* external_process.process.add_arguments(process_parser, **kwargs): the
\* parser now holds the process's arguments.
process_add_arguments(ps, pp, process) ==
    [ps EXCEPT !.at = [@ EXCEPT ![pp].process = process]]

FunctionNameDefault(path) == [k \in {"function_name"} |-> Join(path, Dot)]

\* NamedTree.add_arguments of the node at p, on the parser at pp
RECURSIVE NamedTree_add_arguments(_, _, _, _, _, _)
NamedTree_add_arguments(ns, p, ps, pp, path, conflict_check) ==
    LET this_parser == add_subparsers(ps, pp)
        names == SetToSeq(DOMAIN ns[p].exposed)
        OfExposed[k \in 0..Len(names)] ==
            IF k = 0 THEN this_parser
            ELSE IF IsRaise(OfExposed[k - 1]) THEN OfExposed[k - 1]
            ELSE LET process_name == names[k]
                     external_process == ns[p].exposed[process_name]
                     process_parser ==
                         add_parser(OfExposed[k - 1], pp, process_name, conflict_check)
                 IN  IF IsRaise(process_parser) THEN process_parser
                     ELSE process_add_arguments(
                              set_defaults(process_parser, Append(pp, process_name),
                                           FunctionNameDefault(Append(path, process_name))),
                              Append(pp, process_name), external_process.process)
        leafs == SetToSeq(ns[p].leafs)
        OfLeafs[k \in 0..Len(leafs)] ==
            IF k = 0 THEN OfExposed[Len(names)]
            ELSE IF IsRaise(OfLeafs[k - 1]) THEN OfLeafs[k - 1]
            ELSE LET leaf == ns[Append(p, leafs[k])]
                     leaf_parser == add_parser(OfLeafs[k - 1], pp, leaf.name, conflict_check)
                 IN  IF IsRaise(leaf_parser) THEN leaf_parser
                     ELSE NamedTree_add_arguments(
                              ns, Append(p, leafs[k]),
                              set_defaults(leaf_parser, Append(pp, leaf.name),
                                           FunctionNameDefault(Append(path, leaf.name))),
                              Append(pp, leaf.name), Append(path, leaf.name),
                              conflict_check)
    IN  IF IsRaise(this_parser) THEN this_parser ELSE OfLeafs[Len(leafs)]

\* Plugin.add_arguments of plugin k: retrieve_func is a closure over the
\* plugin, kept as the plugin's number.
Plugin_add_arguments(k, ps, conflict_check) ==
    NamedTree_add_arguments(
        PluginProcesses(k), <<>>,
        set_defaults(ps, <<>>,
                     [key \in {"retrieve_func", "function_name"} |->
                        IF key = "retrieve_func" THEN k ELSE PluginName(k)]),
        <<>>, <<>>, conflict_check)

\* parser.parse_args(argv) with argv a sequence of subcommands: the defaults
\* of the parsers gone through, a subcommand's over its parent's.
RECURSIVE parse_known_args(_, _, _)
parse_known_args(ps, pp, argv) ==
    LET own == ps.at[pp].defaults
    IN  IF argv = <<>> THEN Namespace(own)
        ELSE IF \/ ~ps.at[pp].subparsers
                \/ Append(pp, Head(argv)) \notin DOMAIN ps.at
             THEN Raise("SystemExit")
             ELSE LET subnamespace ==
                          parse_known_args(ps, Append(pp, Head(argv)), Tail(argv))
                  IN  IF IsRaise(subnamespace) THEN subnamespace
                      ELSE Namespace(DictUpdate(own, subnamespace.v))

\* retrieve_func: lambda func_name: self._processes[func_name].process
retrieve_func(k, func_name) ==
    LET found == AttrTree_getitem(PluginProcesses(k), func_name)
    IN  IF IsRaise(found) THEN found ELSE found.process

\* The processes entry points register: every name under every export path.
ProcessNames == {AName, PAName}
Processes ==
    {ExternalProcess(n, Process(n, Join(h, Dot)), Join(h, Dot)) :
        n \in ProcessNames, h \in Hierarchies}
\* The command lines given: the subcommands leading to a registered process.
Argvs == {Append(added[i].hierarchy, added[i].item.name) : i \in 1..Len(added)}

CliInit ==
    /\ decl = Decl(<<>>, <<>>)
    /\ call = [op |-> "init"]
    /\ ret = NoneV
    /\ tree \in {[cls |-> "AttrTree", config |-> ProcessesConfig,
                  plugins |-> n, conflict_check |-> c] :
                    n \in 1..MaxPlugins, c \in BOOLEAN}
    /\ nodes = ProcessesRoot
    /\ added = <<>>
    /\ exposed2 = EmptyDict
    /\ items2 = <<>>
    /\ ncalls = 0
    /\ main_parser = NoneV
    /\ main_args = NoneV
    /\ InitLoad
    /\ InitRun

\* Plugin.add_process, at load time: an exception ends the program.
AddProcess(process) ==
    /\ ~IsRaise(ret)
    /\ main_parser = NoneV
    /\ AddItem(process, hierarchy_for_process(process))

\* create_argument_parser, up to its loop over the plugins
CreateArgumentParser ==
    /\ ~IsRaise(ret)
    /\ main_parser = NoneV
    /\ main_parser' = Parsers([pp \in {<<>>} |-> ArgumentParser], 0)
    /\ call' = [op |-> "create_argument_parser"]
    /\ ret' = NoneV
    /\ UNCHANGED <<decl, tree, nodes, added, exposed2, items2, ncalls, main_args, runVars, loadVars, sentinels>>

\* create_argument_parser, one turn of its loop: plug.add_arguments(parser)
PluginAddArguments ==
    /\ ~IsRaise(ret)
    /\ main_parser # NoneV
    /\ main_parser.plugins < tree.plugins
    /\ LET k == main_parser.plugins + 1
           r == Plugin_add_arguments(k, main_parser, tree.conflict_check)
       IN  /\ call' = [op |-> "Plugin.add_arguments", plugin |-> k]
           /\ ret' = IF IsRaise(r) THEN r ELSE NoneV
           /\ main_parser' = IF IsRaise(r) THEN main_parser
                             ELSE [r EXCEPT !.plugins = k]
    /\ UNCHANGED <<decl, tree, nodes, added, exposed2, items2, ncalls, main_args, runVars, loadVars, sentinels>>

\* main: args = parser.parse_args()
MainParseArgs(argv) ==
    /\ ~IsRaise(ret)
    /\ main_parser # NoneV
    /\ main_parser.plugins = tree.plugins
    /\ main_args = NoneV
    /\ LET r == parse_known_args(main_parser, <<>>, argv)
       IN  /\ ret' = r
           /\ main_args' = IF IsRaise(r) THEN main_args ELSE r
    /\ call' = [op |-> "parse_args", argv |-> argv]
    /\ UNCHANGED <<decl, tree, nodes, added, exposed2, items2, ncalls, main_parser, runVars, loadVars, sentinels>>

\* run_process_cli: process = args.retrieve_func(args.function_name)
RunProcessCli ==
    /\ call.op = "parse_args"
    /\ ~IsRaise(ret)
    /\ call' = [op |-> "run_process_cli", argv |-> call.argv]
    /\ ret' = retrieve_func(main_args.v["retrieve_func"], main_args.v["function_name"])
    /\ UNCHANGED <<decl, treeVars, runVars>>

CliNext ==
    \/ \E process \in Processes : AddProcess(process)
    \/ CreateArgumentParser
    \/ PluginAddArguments
    \/ \E argv \in Argvs : MainParseArgs(argv)
    \/ RunProcessCli

CliSpec == CliInit /\ [][CliNext]_vars

----------------------------------------------------------------------------
(* Claims about the command line.                                          *)

\* The (node path, name) of every process stored in the tree.
StoredProcesses ==
    {<<p, n>> \in (DOMAIN nodes) \X ProcessNames : n \in DOMAIN nodes[p].exposed}
\* The tree has a node whose name is both a group and a process of its.
GroupAndProcessCollide ==
    \E p \in DOMAIN nodes : nodes[p].leafs \cap DOMAIN nodes[p].exposed # {}
\* Two stored processes have the same dotted path.
DottedPathsCollide ==
    \E s1, s2 \in StoredProcesses :
        s1 # s2 /\ DottedPath(s1[1], s1[2]) = DottedPath(s2[1], s2[2])
\* The parser holds the subcommands of the first plugin's tree: a leaf
\* subcommand per stored process, whose function_name is the process's
\* dotted path, and a subcommand group per intermediate node.
Rendered ==
    /\ \A s \in StoredProcesses :
        /\ Append(s[1], s[2]) \in DOMAIN main_parser.at
        /\ LET leaf == main_parser.at[Append(s[1], s[2])]
           IN  /\ leaf.process = nodes[s[1]].exposed[s[2]].process
               /\ HasKey(leaf.defaults, "function_name")
               /\ leaf.defaults["function_name"] = DottedPath(s[1], s[2])
               /\ <<leaf.defaults["function_name"], nodes[s[1]].exposed[s[2]]>>
                    \in RangeOf(as_list(nodes))
    /\ \A p \in DOMAIN nodes :
        /\ p \in DOMAIN main_parser.at
        /\ main_parser.at[p].subparsers

\* C16: CLI rendering and dispatch agree: every Plugin.add_arguments returns,
\* after the first plugin's the parser has one leaf subcommand per stored
\* process, carrying as function_name the process's full dotted path (the
\* one as_list reports), and one subcommand group per intermediate node; the
\* command line of a stored process parses, and retrieve_func(function_name)
\* of the parsed arguments returns that very process.
C16_RenderingAndDispatchAgree ==
    /\ call.op = "Plugin.add_arguments" => ~IsRaise(ret)
    /\ (call.op = "Plugin.add_arguments" /\ ~IsRaise(ret)) => Rendered
    /\ call.op = "parse_args" => ~IsRaise(ret)
    /\ call.op = "run_process_cli" =>
        \A s \in StoredProcesses :
            call.argv = Append(s[1], s[2]) => ret = nodes[s[1]].exposed[s[2]].process

\* C16, failing state: a process named like a group of its node (C8) makes
\* the rendering fail, or lose the process's subcommand where argparse does
\* not check.
C16_CollisionBreaksRendering ==
    /\ call.op = "Plugin.add_arguments"
    /\ call.plugin = 1
    /\ GroupAndProcessCollide
    /\ IF tree.conflict_check THEN ret = Raise("ArgumentError")
       ELSE ~IsRaise(ret) /\ ~Rendered

----------------------------------------------------------------------------
(* Claims about with_arguments and about the parser options of a field.    *)

\* Every field left at HIDDEN, at any depth, has a static default to take:
\* the ValueError of lines 236-237 is not raised.
HiddenResolve(d) ==
    \A i \in 1..Len(d.fields) :
        /\ HoldsHidden(d.vals[i]) => hidden_value(d.fields[i]) # EllipsisV
        /\ d.vals[i].t = "decl" =>
              \A j \in 1..Len(d.vals[i].fields) :
                  HoldsHidden(d.vals[i].vals[j]) =>
                      hidden_value(d.vals[i].fields[j]) # EllipsisV

\* C17: with_arguments returns a declaration in which a nested declaration
\* field holds the reconciled nested declaration, whatever is provided
\* under its name; every other field that is not HIDDEN holds the value
\* provided under its name when there is one and it is not REQUIRED (nor
\* Ellipsis), and its current value otherwise; provided names the
\* declaration does not have change nothing.
C17_ProvidedValuesAreAdopted ==
    (call.op = "with_arguments" /\ HiddenResolve(decl)) =>
        /\ ret.t = "decl"
        /\ \A i \in 1..Len(decl.fields) :
            LET n == decl.fields[i].name
                v == decl.vals[i]
            IN  IF decl.fields[i].nested
                THEN ret.vals[i] = with_arguments(v, call.kwargs)
                ELSE IF HoldsHidden(v) THEN TRUE
                ELSE IF n \in DOMAIN call.kwargs /\ ~HoldsRequired(call.kwargs[n])
                     THEN ret.vals[i] = call.kwargs[n]
                     ELSE ret.vals[i] = v

\* C17, failing state: a value that is not REQUIRED was provided for the
\* init=False field t of a declaration without HIDDEN fields, and
\* with_arguments raised ValueError.
C17_InitFalseFieldIsRefused ==
    /\ call.op = "with_arguments"
    /\ NoHiddenDeep(decl)
    /\ TName \in DOMAIN call.kwargs
    /\ ~HoldsRequired(call.kwargs[TName])
    /\ \E i \in 1..Len(decl.fields) :
        decl.fields[i].name = TName /\ ~decl.fields[i].init
    /\ ret = Raise("ValueError")

----------------------------------------------------------------------------
(* Declaration time: the calls a class body makes to parameterize a        *)
(* sentinel or to give a field its parser options, then an instance of     *)
(* the class and its argument specs.                                       *)

\* The dest a caller gives: another name, or the field's own.
DestNames == {NameV(MName), NameV(XY)}
\* Keyword options with and without 'dest'.
WithDest(kwargs) == {kwargs} \cup {DictSet(kwargs, "dest", d) : d \in DestNames}
\* The keyword options given to args(...)
MetadataKwargs == UNION {WithDest(kw) : kw \in {EmptyDict, [default |-> V_ABC]}}
MetadataArgs == {<<>>, <<NName>>, <<DashN>>}
\* The values an instance holds in a field declared with args(...)
DeclaredValues == {REQUIRED_ARGUMENT, OPTIONAL_ARGUMENT, V_ABC, V_W}
\* The declarations of a field that holds a parameterized sentinel
SentinelFieldDecls == FieldDecls(XY)
\* The options a sentinel is called with: those of the tests, a metavar
\* among them (test_override_argparse_name_optional).
DeclaredOptions ==
    SentinelOptions \cup
        { <<<<MName>>, [metavar |-> NameV(NName)]>>,
          <<<<DashM>>, [metavar |-> NameV(NName)]>>,
          <<<<XDashY, MName>>, EmptyDict>> }

DeclInit ==
    /\ decl = NoneV
    /\ call = [op |-> "import"]
    /\ ret = NoneV
    /\ InitTrees
    /\ InitRun

\* self(*argparse_args, **argparse_kwargs) on a sentinel
SentinelCall(self, id, aargs, akwargs) ==
    /\ call.op = "import"
    /\ call' = [op |-> "__call__", self |-> self, args |-> aargs, kwargs |-> akwargs]
    /\ ret' = SpecialCall(self, id, aargs, akwargs)
    /\ UNCHANGED <<decl, treeVars, runVars>>

\* x_y: T = args(*posargs, **kwargs)
ArgsCall(posargs, kwargs) ==
    /\ call.op = "import"
    /\ call' = [op |-> "args", args |-> posargs, kwargs |-> kwargs]
    /\ ret' = [t |-> "field", v |-> args(XY, posargs, kwargs)]
    /\ UNCHANGED <<decl, treeVars, runVars>>

\* An instance of the class whose field x_y is the one args(...) returned
InstantiateWithField(v) ==
    /\ call.op = "args"
    /\ ~IsRaise(ret)
    /\ decl' = Decl(<<ret.v>>, <<v>>)
    /\ call' = [op |-> "init"]
    /\ ret' = NoneV
    /\ UNCHANGED <<treeVars, runVars>>

\* An instance of a class whose field x_y holds the sentinel __call__ returned
InstantiateWithSentinel(fd) ==
    /\ call.op = "__call__"
    /\ ~IsRaise(ret)
    /\ decl' = Decl(<<fd>>, <<ret>>)
    /\ call' = [op |-> "init"]
    /\ ret' = NoneV
    /\ UNCHANGED <<treeVars, runVars>>

DeclNext ==
    \/ \E self \in {REQUIRED_ARGUMENT, OPTIONAL_ARGUMENT, HIDDEN_ARGUMENT},
          id \in 1..MaxCopies, o \in DeclaredOptions :
            \E akwargs \in WithDest(o[2]) : SentinelCall(self, id, o[1], akwargs)
    \/ \E posargs \in MetadataArgs, kwargs \in MetadataKwargs : ArgsCall(posargs, kwargs)
    \/ \E v \in DeclaredValues : InstantiateWithField(v)
    \/ \E fd \in SentinelFieldDecls : InstantiateWithSentinel(fd)
    \/ \E inc \in Includes : Arguments(inc)

DeclSpec == DeclInit /\ [][DeclNext]_vars

\* C18: giving 'dest' fails at declaration time, in args(...) as on a
\* sentinel, and no argument spec carries a dest other than the name of its
\* field.
C18_DestFailsFast ==
    /\ (call.op \in {"__call__", "args"} /\ HasKey(call.kwargs, "dest")) => IsRaise(ret)
    /\ call.op = "_arguments" =>
        \A n \in DOMAIN ret.v :
            HasKey(ret.v[n].kwargs, "dest") => ret.v[n].kwargs["dest"] = NameV(n)

\* C18, failing state: the field x_y was declared with args(dest="m"),
\* which returned, and its argument spec carries the dest "m".
C18_MetadataDestReachesSpec ==
    /\ call.op = "_arguments"
    /\ decl.fields[1].meta.has
    /\ HasKey(decl.fields[1].meta.kwargs, "dest")
    /\ XY \in DOMAIN ret.v
    /\ HasKey(ret.v[XY].kwargs, "dest")
    /\ ret.v[XY].kwargs["dest"] = NameV(MName)


\* The spec _arguments computes for the field before it looks at the
\* options of the sentinel: the computed name and kwargs (lines 168-197).
ComputedSpec(f, field_val) ==
    LET seed == SeedSpec(f, field_val)
    IN  [args |-> <<ArgName(f, field_val, seed)>>,
         kwargs |-> DefaultKwargs(f, field_val, seed.kwargs)]
\* The sentinel names the argument otherwise than computed.
Renames(f, field_val) ==
    /\ SentinelArgs(field_val) # <<>>
    /\ argslug(SentinelArgs(field_val)[1]) # argslug(ComputedSpec(f, field_val).args[1])

\* C19 as stated: in the spec _arguments returns for a field, the
\* positional options of the field's sentinel, when it has any, are the
\* argument names, and its keyword options are merged into the computed
\* kwargs, the sentinel's value winning for every key; a bare sentinel
\* leaves the computed names and kwargs as they are.
C19_SentinelOptionsOverride ==
    call.op = "_arguments" =>
        \A i \in 1..Len(decl.fields) :
            decl.fields[i].name \in DOMAIN ret.v =>
                LET f == decl.fields[i]
                    v == decl.vals[i]
                    spec == ret.v[f.name]
                    computed == ComputedSpec(f, v)
                IN  /\ spec.args = IF SentinelArgs(v) # <<>> THEN SentinelArgs(v)
                                   ELSE computed.args
                    /\ \A k \in DOMAIN SentinelKwargs(v) :
                            HasKey(spec.kwargs, k) /\ spec.kwargs[k] = SentinelKwargs(v)[k]
                    /\ \A k \in DOMAIN computed.kwargs \ DOMAIN SentinelKwargs(v) :
                            HasKey(spec.kwargs, k) /\ spec.kwargs[k] = computed.kwargs[k]
                    /\ ~CarriesOptions(v) => spec.kwargs = computed.kwargs

\* C19 as amended: the override is followed by the step that keeps dest
\* equal to the field name.  When the sentinel's first name differs (after
\* argslug) from the computed name, an optional field keeps the sentinel's
\* names and gets dest = field name, and a positional field gets the field
\* name as first name, the sentinel's other names after it, and the
\* sentinel's first name as metavar, a metavar the sentinel gave being
\* overwritten.  Every other key holds the sentinel's value when the
\* sentinel gave one, the computed value otherwise, and there is no other
\* key.
C19_SentinelOptionsOverrideThenDest ==
    call.op = "_arguments" =>
        \A i \in 1..Len(decl.fields) :
            decl.fields[i].name \in DOMAIN ret.v =>
                LET f == decl.fields[i]
                    v == decl.vals[i]
                    spec == ret.v[f.name]
                    computed == ComputedSpec(f, v)
                    optional == FieldIsOptional(f, v)
                    set_after == IF ~Renames(f, v) THEN {}
                             ELSE IF optional THEN {"dest"} ELSE {"metavar"}
                IN  /\ spec.args =
                          IF SentinelArgs(v) = <<>> THEN computed.args
                          ELSE IF Renames(f, v) /\ ~optional
                               THEN <<f.name>> \o Tail(SentinelArgs(v))
                               ELSE SentinelArgs(v)
                    /\ DOMAIN spec.kwargs =
                          DOMAIN computed.kwargs \cup DOMAIN SentinelKwargs(v) \cup set_after
                    /\ "dest" \in set_after => spec.kwargs["dest"] = NameV(f.name)
                    /\ "metavar" \in set_after =>
                          spec.kwargs["metavar"] = NameV(SentinelArgs(v)[1])
                    /\ \A k \in DOMAIN SentinelKwargs(v) \ set_after :
                            spec.kwargs[k] = SentinelKwargs(v)[k]
                    /\ \A k \in DOMAIN computed.kwargs \ (DOMAIN SentinelKwargs(v) \cup set_after) :
                            spec.kwargs[k] = computed.kwargs[k]

\* C19 witness: a field whose metadata give a default holds a sentinel
\* called with a name and a default or a metavar; the field is exposed, and
\* its spec holds the sentinel's value under a key both sides have.
C19_Witness ==
    /\ call.op = "_arguments"
    /\ decl.fields[1].meta.has
    /\ XY \in DOMAIN ret.v
    /\ CarriesOptions(decl.vals[1])
    /\ \E k \in DOMAIN SentinelKwargs(decl.vals[1]) \cap
                DOMAIN ComputedSpec(decl.fields[1], decl.vals[1]).kwargs :
            /\ ret.v[XY].kwargs[k] = SentinelKwargs(decl.vals[1])[k]
            /\ ret.v[XY].kwargs[k] # ComputedSpec(decl.fields[1], decl.vals[1]).kwargs[k]

----------------------------------------------------------------------------
(* add_arguments of the runners: SequentialProcessRunner hands the parser  *)
(* and the include predicate to every subprocess, StdinConverter exposes   *)
(* its target with a predicate of its own.                                 *)

RECURSIVE ProcessRunner_add_arguments(_, _, _)
RECURSIVE SubprocessesAddArguments(_, _, _, _)

\* A converter that hands the caller's add_all_fields on to its target.
StdinConverter_add_arguments_callersPredicate(parser, self, add_all_fields) ==
    ProcessRunner_add_arguments(parser, self.target, add_all_fields)
\* StdinConverter.add_arguments: the caller's add_all_fields is dropped, the
\* target is exposed with "the field's value is not Ellipsis".
StdinConverter_add_arguments(parser, self, add_all_fields) ==
    ProcessRunner_add_arguments(parser, self.target, "not_ellipsis")

\* The loop of SequentialProcessRunner.add_arguments from subprocess i on;
\* an exception leaves the loop.
SubprocessesAddArguments(parser, subprocesses, add_all_fields, i) ==
    IF IsRaise(parser) \/ i > Len(subprocesses) THEN parser
    ELSE SubprocessesAddArguments(
             ProcessRunner_add_arguments(parser, subprocesses[i], add_all_fields),
             subprocesses, add_all_fields, i + 1)

\* A Sequential that exposes every field of its subprocesses.
SequentialProcessRunner_add_arguments_allFields(parser, self, add_all_fields) ==
    SubprocessesAddArguments(parser, self.subprocesses, "True", 1)
\* SequentialProcessRunner.add_arguments
SequentialProcessRunner_add_arguments(parser, self, add_all_fields) ==
    SubprocessesAddArguments(parser, self.subprocesses, add_all_fields, 1)

\* process.add_arguments(parser, add_all_fields=...), by the class of process
ProcessRunner_add_arguments(parser, process, add_all_fields) ==
    CASE process.t = "decl" -> add_arguments(parser, process, add_all_fields)
      [] process.t = "Sequential" ->
            SequentialProcessRunner_add_arguments(parser, process, add_all_fields)
      [] process.t = "StdinConverter" ->
            StdinConverter_add_arguments(parser, process, add_all_fields)

BName == <<"b">>
\* The class B of the tests: the one field b, without default.
BDecls ==
    { Decl(<<PlainField(BName, NoDefault)>>, <<v>>) :
        v \in {EllipsisV, REQUIRED_ARGUMENT, OPTIONAL_ARGUMENT, V_W} }

\* The targets a converter is given: a declaration, a Sequential of two
\* declarations, a Sequential holding a Sequential, the same declaration
\* twice, and a Sequential whose first subprocess is a converter.
ConverterTargets(d, b) ==
    { d,
      SequentialProcessRunner(<<d, b>>, FALSE),
      SequentialProcessRunner(<<b, SequentialProcessRunner(<<d>>, TRUE)>>, FALSE),
      SequentialProcessRunner(<<d, d>>, FALSE),
      SequentialProcessRunner(<<StdinConverter(d, "converter"), b>>, FALSE) }

\* StdinConverter(target=..., converter=...).add_arguments(parser,
\* add_all_fields=inc) on a fresh parser
ConverterAddArguments(target, inc) ==
    /\ call.op = "init"
    /\ call' = [op |-> "StdinConverter.add_arguments", target |-> target, inc |-> inc]
    /\ ret' = StdinConverter_add_arguments(EmptyParser,
                                           StdinConverter(target, "converter"), inc)
    /\ UNCHANGED <<decl, treeVars, runVars>>

\* SequentialProcessRunner(...).add_arguments(parser, add_all_fields=inc) on
\* a fresh parser
SequentialAddArguments(target, inc) ==
    /\ call.op = "init"
    /\ target.t = "Sequential"
    /\ call' = [op |-> "Sequential.add_arguments", target |-> target, inc |-> inc]
    /\ ret' = SequentialProcessRunner_add_arguments(EmptyParser, target, inc)
    /\ UNCHANGED <<decl, treeVars, runVars>>

ExposeNext ==
    \/ \E inc \in Includes : Arguments(inc)
    \/ \E inc \in Includes : AddArguments(inc)
    \/ \E b \in BDecls, inc \in Includes :
         \E target \in ConverterTargets(decl, b) : ConverterAddArguments(target, inc)
    \/ \E b \in BDecls, inc \in Includes :
         \E target \in ConverterTargets(decl, b) : SequentialAddArguments(target, inc)

ExposeSpec == Init /\ [][ExposeNext]_vars

----------------------------------------------------------------------------
(* Claims about the arguments a converter exposes.                         *)

\* Every field of a runnable with its value, at every depth: the fields of
\* a declaration and of the declarations its fields hold, of the target of
\* a converter, of every subprocess of a Sequential.
RECURSIVE FieldsOf(_)
RECURSIVE FieldsOfDecl(_, _)
RECURSIVE FieldsOfSubprocesses(_, _)
FieldsOfDecl(d, i) ==
    IF i > Len(d.fields) THEN <<>>
    ELSE <<[f |-> d.fields[i], v |-> d.vals[i]]>>
         \o (IF d.fields[i].nested THEN FieldsOf(d.vals[i]) ELSE <<>>)
         \o FieldsOfDecl(d, i + 1)
FieldsOfSubprocesses(subprocesses, i) ==
    IF i > Len(subprocesses) THEN <<>>
    ELSE FieldsOf(subprocesses[i]) \o FieldsOfSubprocesses(subprocesses, i + 1)
FieldsOf(r) ==
    CASE r.t = "decl" -> FieldsOfDecl(r, 1)
      [] r.t = "Sequential" -> FieldsOfSubprocesses(r.subprocesses, 1)
      [] r.t = "StdinConverter" -> FieldsOf(r.target)

HoldsSentinel(v) == v # EllipsisV /\ (HoldsRequired(v) \/ HoldsOptional(v))
NumAdded(parser, n) ==
    Cardinality({j \in 1..Len(parser.actions) : parser.actions[j].owner = n})
NumHolding(fs, n, P(_)) ==
    Cardinality({j \in 1..Len(fs) : fs[j].f.name = n /\ P(fs[j])})
HoldsSentinelField(e) == HoldsSentinel(e.v)
NotEllipsisField(e) == e.v # EllipsisV
\* A field add_arguments can add at all: a field of __init__ whose
\* specification is not excluded.
ExposableField(e) == e.f.init /\ ~e.f.meta.exclude /\ HoldsSentinel(e.v)
\* The option strings of the argument of a field.
FlagsOf(e) ==
    LET a == ArgSpec(e.f, e.v).args
    IN  {a[k] : k \in {k \in 1..Len(a) : a[k][1] = "-"}}
\* Two exposable fields ask for the same option string.
FlagsCollide(fs) ==
    \E i, j \in 1..Len(fs) :
        /\ i < j
        /\ ExposableField(fs[i]) /\ ExposableField(fs[j])
        /\ FlagsOf(fs[i]) \cap FlagsOf(fs[j]) # {}
FieldNamesOf(fs) == {fs[j].f.name : j \in 1..Len(fs)}

\* C20 as stated: a converter adds no argument for a field of its target
\* whose value is Ellipsis and adds one for every field holding
\* REQUIRED_ARGUMENT or OPTIONAL_ARGUMENT, at every depth of the target.
C20_ConverterAddsEverySentinelField ==
    call.op = "StdinConverter.add_arguments" =>
        LET fs == FieldsOf(call.target)
        IN  /\ ret.t = "parser"
            /\ \A n \in FieldNamesOf(fs) :
                /\ NumAdded(ret, n) >= NumHolding(fs, n, HoldsSentinelField)
                /\ NumAdded(ret, n) <= NumHolding(fs, n, NotEllipsisField)

\* argparse refuses the argument of an exposable field: its specification
\* is one add_argument rejects, or its option string is already taken by
\* another exposable field.
ArgparseRefuses(fs) ==
    \/ FlagsCollide(fs)
    \/ \E j \in 1..Len(fs) :
        /\ ExposableField(fs[j])
        /\ IsRaise(NewAction(ArgSpec(fs[j].f, fs[j].v).args,
                             ArgSpec(fs[j].f, fs[j].v).kwargs, fs[j].f.name))

\* C20, amended: whatever add_all_fields it is called with, the converter
\* adds exactly one argument for every field of __init__ that holds
\* REQUIRED_ARGUMENT or OPTIONAL_ARGUMENT and is not excluded, and none for
\* any other field (one holding Ellipsis included), at every depth of the
\* target; the call raises instead exactly when argparse refuses one of
\* these arguments.
C20_ConverterAddsExposableSentinelFields ==
    call.op = "StdinConverter.add_arguments" =>
        LET fs == FieldsOf(call.target)
        IN  IF ArgparseRefuses(fs)
            THEN ret \in {Raise("ArgumentError"), Raise("ValueError")}
            ELSE /\ ret.t = "parser"
                 /\ Len(ret.actions)
                      = Cardinality({j \in 1..Len(fs) : ExposableField(fs[j])})
                 /\ \A n \in FieldNamesOf(fs) :
                        NumAdded(ret, n) = NumHolding(fs, n, ExposableField)

\* A converter over a Sequential holding a Sequential, one field Ellipsis,
\* one holding a sentinel: only the second was added.
C20_Witness ==
    /\ call.op = "StdinConverter.add_arguments"
    /\ call.target.t = "Sequential"
    /\ \E i \in 1..Len(call.target.subprocesses) :
           call.target.subprocesses[i].t = "Sequential"
    /\ LET fs == FieldsOf(call.target)
       IN  /\ NumHolding(fs, BName, HoldsSentinelField) = 0
           /\ \E j \in 1..Len(fs) : fs[j].f.name = BName /\ fs[j].v = EllipsisV
           /\ NumHolding(fs, XY, ExposableField) = 1
    /\ ret.t = "parser"
    /\ Len(ret.actions) = 1
    /\ ret.actions[1].owner = XY

----------------------------------------------------------------------------
(* Claims about the converters of a Sequential that is not piped.          *)

\* C21 as stated: in a Sequential that is not piped, the process started
\* for a StdinConverter runs its target after the overrides were applied,
\* the converter having been given the lines of the sub-runnable before it
\* joined by newline (the empty text when it is first), whatever that
\* sub-runnable is; the run ends early only when a process fails.
C21_ConverterGetsPreviousOutput ==
    IsNonPiped(decl) =>
        /\ \A k \in 1..Len(procs) :
            IsConverter(decl.subprocesses[k]) =>
                procs[k].args = ConvertedCmd(IF k = 1 THEN <<>>
                                             ELSE JoinLines(YieldedBy(k - 1)))
        /\ pc = "raised" =>
            /\ procs # <<>>
            /\ ret = CalledProcessError(procs[Len(procs)].returncode,
                                        procs[Len(procs)].args)

\* C21 failing state: the target of a converter yielded a line, and the
\* converter after it was given the empty text.
C21_ConverterAfterConverterGetsNothing ==
    /\ IsNonPiped(decl)
    /\ \E k \in 2..Len(procs) :
        /\ IsConverter(decl.subprocesses[k - 1])
        /\ IsConverter(decl.subprocesses[k])
        /\ YieldedBy(k - 1) # <<>>
        /\ procs[k].args = ConvertedCmd(<<>>)

----------------------------------------------------------------------------
(* Claims about the include predicate.                                     *)

\* The fields of the targets of the converters of a runnable, at every
\* depth.
RECURSIVE ConverterFieldsOf(_)
RECURSIVE ConverterFieldsOfSubprocesses(_, _)
ConverterFieldsOfSubprocesses(subprocesses, i) ==
    IF i > Len(subprocesses) THEN <<>>
    ELSE ConverterFieldsOf(subprocesses[i])
         \o ConverterFieldsOfSubprocesses(subprocesses, i + 1)
ConverterFieldsOf(r) ==
    CASE r.t = "decl" -> <<>>
      [] r.t = "Sequential" -> ConverterFieldsOfSubprocesses(r.subprocesses, 1)
      [] r.t = "StdinConverter" -> FieldsOf(r.target)

IsAddArguments ==
    call.op \in {"add_arguments", "Sequential.add_arguments",
                 "StdinConverter.add_arguments"}
\* The runnable add_arguments was called on.
Receiver ==
    CASE call.op = "add_arguments" -> decl
      [] call.op = "Sequential.add_arguments" -> call.target
      [] call.op = "StdinConverter.add_arguments" ->
            StdinConverter(call.target, "converter")

\* C22 as stated: _arguments(add_all_fields=False) is empty and holds no
\* spec for a field the predicate rejects, and add_arguments with
\* add_all_fields=False adds nothing to the parser, for a declaration, a
\* Sequential and a converter alike.
C22_RejectedFieldsAreNotExposed ==
    /\ call.op = "_arguments" =>
        \A i \in 1..Len(decl.fields) :
            ~include_field(call.inc, decl.vals[i]) =>
                decl.fields[i].name \notin DOMAIN ret.v
    /\ (IsAddArguments /\ call.inc = "False") => ret = EmptyParser

\* C22, amended: _arguments holds no spec for a field the predicate
\* rejects (none at all with add_all_fields=False); add_arguments adds no
\* argument for a rejected field of a declaration, of its nested
\* declarations and of the subprocesses of a Sequential, and nothing at all
\* with add_all_fields=False when the runnable holds no StdinConverter; the
\* target of a StdinConverter is exposed with the converter's own
\* predicate instead, so with add_all_fields=False the parser holds exactly
\* the arguments of the exposable sentinel fields of the converters'
\* targets (or the call raises, argparse refusing one of them).
C22_RejectedFieldsOutsideConverters ==
    /\ call.op = "_arguments" =>
        /\ \A i \in 1..Len(decl.fields) :
              ~include_field(call.inc, decl.vals[i]) =>
                  decl.fields[i].name \notin DOMAIN ret.v
        /\ call.inc = "False" => ret.v = EmptyDict
    /\ IsAddArguments =>
        LET fs == FieldsOf(Receiver)
            inside == ConverterFieldsOf(Receiver)
            Accepted(e) == include_field(call.inc, e.v)
        IN  /\ ret.t = "parser" =>
                \A n \in FieldNamesOf(fs) :
                    NumAdded(ret, n) <=
                        (NumHolding(fs, n, Accepted) - NumHolding(inside, n, Accepted))
                        + NumHolding(inside, n, ExposableField)
            /\ call.inc = "False" =>
                IF ArgparseRefuses(inside)
                THEN ret \in {Raise("ArgumentError"), Raise("ValueError")}
                ELSE /\ ret.t = "parser"
                     /\ Len(ret.actions)
                          = Cardinality({j \in 1..Len(inside) : ExposableField(inside[j])})
                     /\ \A j \in 1..Len(ret.actions) :
                            \E e \in 1..Len(inside) :
                                /\ ExposableField(inside[e])
                                /\ inside[e].f.name = ret.actions[j].owner

\* A Sequential of a declaration holding REQUIRED_ARGUMENT and of another
\* holding OPTIONAL_ARGUMENT was asked for its arguments with
\* add_all_fields=False: the parser is left empty.
C22_Witness ==
    /\ call.op = "Sequential.add_arguments"
    /\ call.inc = "False"
    /\ ConverterFieldsOf(call.target) = <<>>
    /\ Len(call.target.subprocesses) = 2
    /\ \E j \in 1..Len(FieldsOf(call.target)) :
           FieldsOf(call.target)[j].v = REQUIRED_ARGUMENT
    /\ \E j \in 1..Len(FieldsOf(call.target)) :
           FieldsOf(call.target)[j].v = OPTIONAL_ARGUMENT
    /\ ret = EmptyParser

----------------------------------------------------------------------------
(* len(tree) and the descent by attributes (AttrTree2.__getattr__,         *)
(* AttrTreeView.__getattr__), on the trees add_item builds.                *)

\* AttrTree2.__len__
AttrTree2_len(exposed) == Cardinality(DOMAIN exposed)

\* getattr(node, name) on what a descent holds: the AttrTree2 itself, an
\* AttrTreeView, or a stored value (which has no such attribute).
TreeRoot == [t |-> "AttrTree2"]
AttrTree2_getattr(exposed, node, name) ==
    CASE node.t = "AttrTree2" -> get_item(exposed, name)
      [] node.t = "AttrTreeView" -> get_item(exposed, node.path \o Dot \o name)
      [] node.t = "raise" -> node
      [] OTHER -> Raise("AttributeError")

\* The nodes a descent along names goes through, the root first: an
\* exception met on the way stays.
RECURSIVE Descent(_, _, _)
Descent(exposed, node, names) ==
    IF names = <<>> THEN <<node>>
    ELSE <<node>> \o Descent(exposed, AttrTree2_getattr(exposed, node, Head(names)),
                             Tail(names))

\* 'a.b'.split('.') if the path is not empty, else []
HierarchyOf(path) == IF path = <<>> THEN <<>> ELSE Split(path)

\* len(tree) on an AttrTree / NamedTree
TreeLength ==
    /\ tree.cls = "AttrTree"
    /\ call' = [op |-> "__len__"]
    /\ ret' = IntV(TreeLen(nodes, <<>>))
    /\ UNCHANGED <<decl, treeVars, runVars>>

\* len(tree) on an AttrTree2
TreeLength2 ==
    /\ tree.cls = "AttrTree2"
    /\ call' = [op |-> "__len__2"]
    /\ ret' = IntV(AttrTree2_len(exposed2))
    /\ UNCHANGED <<decl, treeVars, runVars>>

\* The descent of the tests for the i-th item inserted: getattr with each
\* segment of its path and then with its name, asking every node on the
\* way for the item's name.
WalkDown(i) ==
    /\ tree.cls = "AttrTree2"
    /\ i \in 1..Len(items2)
    /\ LET it == items2[i]
           steps == Append(HierarchyOf(it.path), it.item_name)
           through == Descent(exposed2, TreeRoot, steps)
       IN  /\ call' = [op |-> "walk", i |-> i, steps |-> steps]
           /\ ret' = [t |-> "walk",
                      reached |-> through[Len(through)],
                      by_name |-> [k \in 1..Len(steps) |->
                                      AttrTree2_getattr(exposed2, through[k], it.item_name)]]
    /\ UNCHANGED <<decl, treeVars, runVars>>

WalkNext ==
    \/ \E item \in TreeItems, hierarchy \in Hierarchies : AddItem(item, hierarchy)
    \/ \E item \in TreeItems, hierarchy \in Hierarchies : AddItem2(item, hierarchy)
    \/ TreeLength
    \/ TreeLength2
    \/ \E i \in 1..MaxItems : WalkDown(i)

WalkSpec == TreeInit /\ [][WalkNext]_vars

----------------------------------------------------------------------------
(* Claims about len(tree).                                                 *)

\* The places items were inserted at: (hierarchy, name) in an AttrTree, the
\* full dotted path in an AttrTree2.
PlacesAdded ==
    {<<added[i].hierarchy, item_name(added[i].item)>> : i \in 1..Len(added)}
PlacesItems2 == {fullpath(items2[i]) : i \in 1..Len(items2)}

\* C23 as stated: len(tree) is the number of items inserted, for both
\* trees and both exposure policies.
C23_LenCountsInsertions ==
    /\ call.op = "__len__" => ret = IntV(Len(added))
    /\ call.op = "__len__2" => ret = IntV(Len(items2))

\* C23, amended: len(tree) is the number of distinct places items were
\* inserted at -- (hierarchy, name) pairs for AttrTree / NamedTree, full
\* dotted paths for AttrTree2 -- an insertion at a place already taken
\* replacing the item there; items of the same name under different paths
\* count separately; for both exposure policies.
C23_LenCountsPlaces ==
    /\ call.op = "__len__" => ret = IntV(Cardinality(PlacesAdded))
    /\ call.op = "__len__2" => ret = IntV(Cardinality(PlacesItems2))

\* Three insertions, two of them of items of the same name under different
\* paths and one at a place already taken: len(tree) is 2.
C23_Witness ==
    /\ call.op \in {"__len__", "__len__2"}
    /\ ret = IntV(2)
    /\ \/ /\ tree.cls = "AttrTree"
          /\ Len(added) = 3
          /\ \E i, j \in 1..3 :
                /\ added[i].item.name = added[j].item.name
                /\ added[i].hierarchy # added[j].hierarchy
       \/ /\ tree.cls = "AttrTree2"
          /\ Len(items2) = 3
          /\ \E i, j \in 1..3 :
                /\ items2[i].item_name = items2[j].item_name
                /\ items2[i].path # items2[j].path


----------------------------------------------------------------------------
(* Claims about the descent by attributes.                                 *)

\* The value the tree stores for the item a descent is made for.
WalkedValue == item_value(tree.config, items2[call.i].item)
NamesUnique2 ==
    \A i, j \in 1..Len(items2) :
        items2[i].item_name = items2[j].item_name => i = j

\* C24: for every stored item, getattr from the root with each segment of
\* the item's path and then with its name reaches the item; with unique
\* item names and expose_leafs_items true, getattr(node, item name) gives
\* the item at every node of the descent.
C24_DescentReachesItem ==
    call.op = "walk" =>
        /\ ret.reached = WalkedValue
        /\ (NamesUnique2 /\ tree.config.expose_leafs_items) =>
               \A k \in 1..Len(ret.by_name) : ret.by_name[k] = WalkedValue

\* Item 'a' was inserted at the root and item 'ba' under the path 'a'
\* (names unique, places distinct, nothing overwritten): 'a' is both a
\* stored item and a group, getattr(tree, 'a') gives the item and the
\* descent to 'ba' ends in AttributeError.
C24_DescentStopsAtItemNamedAsGroup ==
    /\ call.op = "walk"
    /\ tree.config.expose_leafs_items
    /\ Len(items2) = 2
    /\ NamesUnique2
    /\ items2[1].item_name = AName /\ items2[1].path = <<>>
    /\ items2[2].item_name = BAName /\ items2[2].path = AName
    /\ call.i = 2
    /\ ret.reached = Raise("AttributeError")


----------------------------------------------------------------------------
(* The plugin loader: PluginLoader.load_command, load_process and          *)
(* load_registry, filling the two trees of each Plugin.                    *)

\* str.split(sep) with a separator of several characters: the leftmost
\* occurrences, not overlapping.
RECURSIVE SplitOn(_, _)
SplitOn(s, sep) ==
    LET at == {i \in 1..(Len(s) - Len(sep) + 1) : SubSeq(s, i, i + Len(sep) - 1) = sep}
    IN  IF at = {} THEN <<s>>
        ELSE LET i == CHOOSE i \in at : \A j \in at : i <= j
             IN  <<SubSeq(s, 1, i - 1)>> \o SplitOn(SubSeq(s, i + Len(sep), Len(s)), sep)
Dunder == <<"_", "_">>

\* A class an entry point loads, and an ExternalCommand with its
\* __post_init__: an empty name becomes the class's name.
Class(name, id) == [t |-> "class", name |-> name, id |-> id]
ExternalCommand(cls, name, export_path) ==
    [t |-> "item", name |-> IF name = <<>> THEN cls.name ELSE name,
     id |-> cls.id, cls |-> cls, export_path |-> export_path]
\* PluginRegistry(name) with the commands registered on it.
PluginRegistry(name, commands) == [t |-> "registry", name |-> name, commands |-> commands]
\* An importlib.metadata.EntryPoint: load() gives the object it points to.
EntryPoint(name, module, attr) == [name |-> name, module |-> module, attr |-> attr]

\* Plugin.hierarchy_for_command
hierarchy_for_command(cmd) ==
    IF cmd.export_path # <<>> THEN Split(cmd.export_path) ELSE <<>>

\* Plugin(name=..., module=...) with its two trees; id tells the objects
\* apart, attrs are the attributes setattr created.
CommandsConfig == AttrTreeConfig(TRUE, "cls")
CommandsRoot == [p \in {<<>>} |-> AttrTree(<<"_", "_", "c", "m", "d", "s", "_", "_">>, TRUE)]
Plugin(name, module, id) ==
    [name |-> name, module |-> module, id |-> id,
     commands |-> CommandsRoot, processes |-> ProcessesRoot, attrs |-> EmptyDict]
PluginAttrNames ==
    {<<"n", "a", "m", "e">>, <<"m", "o", "d", "u", "l", "e">>,
     <<"_", "c", "o", "m", "m", "a", "n", "d", "s">>,
     <<"_", "p", "r", "o", "c", "e", "s", "s", "e", "s">>}
PluginHasAttr(plugin, name) == name \in DOMAIN plugin.attrs \/ name \in PluginAttrNames

\* Lines 155-157 and 160-162: the group add_item returned becomes an
\* attribute of the plugin unless it has one of that name.
SetGroupAttr(plugin, group) ==
    IF group.leaf_name # NoneV /\ group.leaf_name.n # <<>>
       /\ ~PluginHasAttr(plugin, group.leaf_name.n)
    THEN [plugin EXCEPT !.attrs = DictSet(@, group.leaf_name.n, LeafAttr)]
    ELSE plugin

\* Plugin.add_command: the plugin after the call, what was done before an
\* exception included, and the call's result.
Plugin_add_command(plugin, cmd) ==
    LET p1 == [plugin EXCEPT !.attrs = DictSet(@, cmd.cls.name, [t |-> "cls", of |-> cmd.id])]
        r == add_item(CommandsConfig, p1.commands, <<>>, cmd, hierarchy_for_command(cmd))
        p2 == [p1 EXCEPT !.commands = r.nodes]
    IN  IF IsRaise(r.ret) THEN [plugin |-> p2, ret |-> r.ret]
        ELSE [plugin |-> SetGroupAttr(p2, r.ret), ret |-> NoneV]

\* Plugin.add_process
Plugin_add_process(plugin, process) ==
    LET r == add_item(ProcessesConfig, plugin.processes, <<>>, process,
                      hierarchy_for_process(process))
        p2 == [plugin EXCEPT !.processes = r.nodes]
    IN  IF IsRaise(r.ret) THEN [plugin |-> p2, ret |-> r.ret]
        ELSE [plugin |-> SetGroupAttr(p2, r.ret), ret |-> NoneV]

\* PluginLoader.plugin_name
plugin_name(module) == Split(module)[1]

\* PluginLoader.get_or_create_plugin_for_module: the mapping after the call.
get_or_create_plugin_for_module(ps, module) ==
    IF plugin_name(module) \in DOMAIN ps THEN ps
    ELSE DictSet(ps, plugin_name(module),
                 Plugin(plugin_name(module), module, Cardinality(DOMAIN ps) + 1))

\* PluginLoader.get_name_and_hierarchy_from_entrypoint
get_name_and_hierarchy_from_entrypoint(ep) ==
    LET parts == SplitOn(ep.name, Dunder)
    IN  [name |-> parts[Len(parts)], hierarchy |-> SubSeq(parts, 1, Len(parts) - 1)]

\* PluginLoader.load_command
load_command(ps, ep) ==
    LET ps1 == get_or_create_plugin_for_module(ps, ep.module)
        pn == plugin_name(ep.module)
        nh == get_name_and_hierarchy_from_entrypoint(ep)
        cmd == ExternalCommand(ep.attr, nh.name, Join(nh.hierarchy, Dot))
        r == Plugin_add_command(ps1[pn], cmd)
    IN  [plugins |-> [ps1 EXCEPT ![pn] = r.plugin], ret |-> r.ret]

\* PluginLoader.load_process
load_process(ps, ep) ==
    LET ps1 == get_or_create_plugin_for_module(ps, ep.module)
        pn == plugin_name(ep.module)
        nh == get_name_and_hierarchy_from_entrypoint(ep)
        proc == ExternalProcess(nh.name, ep.attr, Join(nh.hierarchy, Dot))
        r == Plugin_add_process(ps1[pn], proc)
    IN  [plugins |-> [ps1 EXCEPT ![pn] = r.plugin], ret |-> r.ret]

\* The loop of load_registry over registry.commands, from the k-th on: each
\* command without an export path takes the base one, for good.
RECURSIVE AddRegistryCommands(_, _, _, _)
AddRegistryCommands(plugin, registry, base_export_path, k) ==
    IF k > Len(registry.commands)
    THEN [plugin |-> plugin, registry |-> registry, ret |-> NoneV]
    ELSE LET old == registry.commands[k]
             command == [old EXCEPT !.export_path =
                            IF old.export_path # <<>> THEN old.export_path
                            ELSE base_export_path]
             reg1 == [registry EXCEPT !.commands[k] = command]
             r == Plugin_add_command(plugin, command)
         IN  IF IsRaise(r.ret)
             THEN [plugin |-> r.plugin, registry |-> reg1, ret |-> r.ret]
             ELSE AddRegistryCommands(r.plugin, reg1, base_export_path, k + 1)

\* PluginLoader.load_registry: PluginRegistry has no attribute 'processes',
\* so the loop over registry.processes ends the call with AttributeError.
load_registry(ps, regs, ep) ==
    LET ps1 == get_or_create_plugin_for_module(ps, ep.module)
        pn == plugin_name(ep.module)
        registry == regs[ep.attr.id]
        nh == get_name_and_hierarchy_from_entrypoint(ep)
        hierarchy == IF registry.name # NoneV /\ registry.name.n # <<>>
                     THEN Append(nh.hierarchy, registry.name.n)
                     ELSE nh.hierarchy
        r == AddRegistryCommands(ps1[pn], registry, Join(hierarchy, Dot), 1)
    IN  [plugins |-> [ps1 EXCEPT ![pn] = r.plugin],
         registries |-> [regs EXCEPT ![ep.attr.id] = r.registry],
         ret |-> IF IsRaise(r.ret) THEN r.ret ELSE Raise("AttributeError")]

\* Entry points: names without '__', with one and with two; modules of the
\* same first segment and of another; two classes, one runnable and two
\* registries (one named, one whose command has its own export path).
MaxLoads == 3
ClassA == Class(<<"A">>, 1)
ClassB == Class(<<"B">>, 2)
BSeg == <<"b">>
RSeg == <<"r">>
MXName == <<"m", ".", "x">>
EntryNames ==
    {AName, AName \o Dunder \o BSeg, PSeg \o Dunder \o AName,
     PSeg \o Dunder \o AName \o Dunder \o BSeg}
EntryModules == {MName, MXName, NName}
LoadedProcess == Process(<<"p", "r", "o", "c">>, <<>>)
RegistryRef(k) == [t |-> "registry", id |-> k]
InitialRegistries ==
    <<PluginRegistry(NameV(RSeg), <<ExternalCommand(ClassB, <<>>, <<>>)>>),
      PluginRegistry(NoneV, <<ExternalCommand(ClassB, BSeg, AName)>>)>>
CommandEntryPoints ==
    {EntryPoint(n, m, c) : n \in EntryNames, m \in EntryModules, c \in {ClassA}}
ProcessEntryPoints ==
    {EntryPoint(n, m, LoadedProcess) : n \in EntryNames, m \in EntryModules}
RegistryEntryPoints ==
    {EntryPoint(n, m, RegistryRef(k)) :
        n \in {AName, PSeg \o Dunder \o AName}, m \in {MName, NName}, k \in {1, 2}}

LoadInit ==
    /\ decl = Decl(<<>>, <<>>)
    /\ call = [op |-> "init"]
    /\ ret = NoneV
    /\ tree = NoneV
    /\ nodes = <<>>
    /\ added = <<>>
    /\ exposed2 = <<>>
    /\ items2 = <<>>
    /\ ncalls = 0
    /\ main_parser = NoneV
    /\ main_args = NoneV
    /\ InitRun
    /\ plugins = EmptyDict
    /\ registries = InitialRegistries
    /\ loads = <<>>
    /\ sentinels = Singletons

\* loader.load_command(ep)
LoadCommand(ep) ==
    /\ Len(loads) < MaxLoads
    /\ LET r == load_command(plugins, ep)
       IN  /\ plugins' = r.plugins
           /\ ret' = r.ret
    /\ call' = [op |-> "load_command", ep |-> ep]
    /\ loads' = Append(loads, [kind |-> "command", ep |-> ep])
    /\ UNCHANGED <<decl, tree, nodes, added, exposed2, items2, ncalls, cliVars,
                   registries, runVars, sentinels>>

\* loader.load_process(ep)
LoadProcess(ep) ==
    /\ Len(loads) < MaxLoads
    /\ LET r == load_process(plugins, ep)
       IN  /\ plugins' = r.plugins
           /\ ret' = r.ret
    /\ call' = [op |-> "load_process", ep |-> ep]
    /\ loads' = Append(loads, [kind |-> "process", ep |-> ep])
    /\ UNCHANGED <<decl, tree, nodes, added, exposed2, items2, ncalls, cliVars,
                   registries, runVars, sentinels>>

\* loader.load_registry(ep)
LoadRegistry(ep) ==
    /\ Len(loads) < MaxLoads
    /\ LET r == load_registry(plugins, registries, ep)
       IN  /\ plugins' = r.plugins
           /\ registries' = r.registries
           /\ ret' = r.ret
    /\ call' = [op |-> "load_registry", ep |-> ep]
    /\ loads' = Append(loads, [kind |-> "registry", ep |-> ep])
    /\ UNCHANGED <<decl, tree, nodes, added, exposed2, items2, ncalls, cliVars, runVars,
                   sentinels>>

LoadNext ==
    \/ \E ep \in CommandEntryPoints : LoadCommand(ep)
    \/ \E ep \in ProcessEntryPoints : LoadProcess(ep)
    \/ \E ep \in RegistryEntryPoints : LoadRegistry(ep)

LoadSpec == LoadInit /\ [][LoadNext]_vars


----------------------------------------------------------------------------
(* Claims about the plugin loader.                                         *)

\* The tree of a plugin an entry point of that kind goes to.
TreeOfKind(plugin, kind) ==
    IF kind = "command" THEN plugin.commands ELSE plugin.processes
\* The entry point is registered: the plugin named after the first segment
\* of its module holds, at the node its hierarchy leads to, an item of the
\* leaf name whose export path is the dotted hierarchy.
Registered(ep, kind) ==
    LET nh == get_name_and_hierarchy_from_entrypoint(ep)
        pn == plugin_name(ep.module)
    IN  /\ pn \in DOMAIN plugins
        /\ LET ns == TreeOfKind(plugins[pn], kind)
           IN  /\ nh.hierarchy \in DOMAIN ns
               /\ nh.name \in DOMAIN ns[nh.hierarchy].exposed
               /\ ns[nh.hierarchy].exposed[nh.name].name = nh.name
               /\ ns[nh.hierarchy].exposed[nh.name].export_path = Join(nh.hierarchy, Dot)
KindOfCall == IF call.op = "load_command" THEN "command" ELSE "process"
\* One Plugin per first module segment of the entry points handed over.
OnePluginPerSegment ==
    DOMAIN plugins = {plugin_name(loads[i].ep.module) : i \in 1..Len(loads)}
\* A step keeps every Plugin there is: the same object under the same name,
\* with the nodes and the item names it had.
PluginsKept ==
    \A k \in DOMAIN plugins :
        /\ k \in DOMAIN plugins'
        /\ plugins'[k].id = plugins[k].id
        /\ plugins'[k].module = plugins[k].module
        /\ \A kind \in {"command", "process"} :
              \A p \in DOMAIN TreeOfKind(plugins[k], kind) :
                  /\ p \in DOMAIN TreeOfKind(plugins'[k], kind)
                  /\ DOMAIN TreeOfKind(plugins[k], kind)[p].exposed
                        \subseteq DOMAIN TreeOfKind(plugins'[k], kind)[p].exposed

\* C25: an entry point 's1__s2__leaf' handed to load_command or load_process
\* is registered with item name 'leaf' and export path 's1.s2' in the plugin
\* named after the first segment of its module; the plugins mapping holds
\* one Plugin per first module segment; a later load never replaces or
\* empties a Plugin.
C25_EntryPointsAreRegistered ==
    /\ [](/\ call.op \in {"load_command", "load_process"} =>
                Registered(call.ep, KindOfCall)
          /\ OnePluginPerSegment)
    /\ [][PluginsKept]_vars

\* load_command of 'a__b' and then of 'p__a', both of modules of plugin 'm':
\* the second raises AssertionError and 'a' is not registered under 'p',
\* although the node 'p' has no group 'a' (the root has).
C25_CommandRefusedForGroupOfAncestor ==
    /\ Len(loads) = 2
    /\ loads[1].kind = "command" /\ loads[1].ep.name = AName \o Dunder \o BSeg
    /\ loads[2].kind = "command" /\ loads[2].ep.name = PSeg \o Dunder \o AName
    /\ plugin_name(loads[1].ep.module) = plugin_name(loads[2].ep.module)
    /\ call.op = "load_command"
    /\ ret = Raise("AssertionError")
    /\ ~Registered(call.ep, "command")
    /\ LET ns == plugins[plugin_name(call.ep.module)].commands
       IN  \A p \in DOMAIN ns : p = <<PSeg>> => AName \notin ns[p].leafs


----------------------------------------------------------------------------
(* Claims about the fields declared with final_value.                      *)

\* The field was declared with final_value(...).
FinalDeclared(f) ==
    f.dflt.kind = "factory" /\ f = final_value(f.name, f.dflt.val)
FinalField(e) == FinalDeclared(e.f)
OtherField(e) == ~FinalDeclared(e.f)

\* C26: a field declared with final_value(...) is never added to a parser by
\* add_arguments, whatever value it holds: the spec _arguments computes for
\* it carries exclude = TRUE, and the parser gets no more arguments of a
\* field name than there are fields of that name declared otherwise.
C26_FinalValueIsNeverAdded ==
    /\ call.op = "_arguments" =>
          \A i \in 1..Len(decl.fields) :
              (FinalDeclared(decl.fields[i]) /\ decl.fields[i].name \in DOMAIN ret.v)
                  => ret.v[decl.fields[i].name].exclude
    /\ (IsAddArguments /\ ret.t = "parser") =>
          \A n \in FieldNamesOf(FieldsOf(Receiver)) :
              NumAdded(ret, n) <= NumHolding(FieldsOf(Receiver), n, OtherField)

\* The one field of the declaration was declared with final_value and holds
\* OPTIONAL_ARGUMENT; add_arguments(parser, add_all_fields=True) computed a
\* spec for it and left the parser empty.
C26_Witness ==
    /\ call.op = "add_arguments"
    /\ call.inc = "True"
    /\ Len(decl.fields) = 1
    /\ FinalDeclared(decl.fields[1])
    /\ decl.vals[1] = OPTIONAL_ARGUMENT
    /\ decl.fields[1].name \in DOMAIN _arguments(decl, "True")
    /\ ret = EmptyParser


----------------------------------------------------------------------------
(* Claims about the docstring of _arguments.                               *)

\* A value that is no sentinel and not Ellipsis.
Concrete(v) == ~HoldsRequired(v) /\ ~HoldsOptional(v) /\ ~HoldsHidden(v)

\* C27: as the docstring of _arguments states, a field whose value is a
\* concrete value equal to the default declared in its class becomes an
\* optional argument: _arguments returns for it a spec named '--field-name'
\* with that default.
C27_DefaultValueBecomesOptional ==
    (call.op = "_arguments" /\ call.inc = "True") =>
        \A i \in 1..Len(decl.fields) :
            LET f == decl.fields[i]
                v == decl.vals[i]
            IN  (f.init /\ ~f.meta.has /\ Concrete(v) /\ HasStaticDefault(f)
                 /\ f.dflt.val = v)
                    => /\ f.name \in DOMAIN ret.v
                       /\ ret.v[f.name].args = <<Dashes \o Hyphenated(f.name)>>
                       /\ HasKey(ret.v[f.name].kwargs, "default")
                       /\ ret.v[f.name].kwargs["default"] = v

\* The class declares x_y: str = 'abc' and the instance holds 'abc':
\* _arguments(add_all_fields=True) returns no spec at all.
C27_DefaultValueIsSkipped ==
    /\ call.op = "_arguments"
    /\ call.inc = "True"
    /\ decl.fields = <<PlainField(XY, Default(V_ABC))>>
    /\ decl.vals = <<V_ABC>>
    /\ ret.v = EmptyDict


----------------------------------------------------------------------------
(* The sentinel objects themselves: _SPECIAL_ARGUMENT.__call__ on the      *)
(* objects there are, and the argument spec of a field holding one.        *)

\* getattr(obj, name, default) on an object of a sentinel class
SentinelGetAttr(obj, name, default) ==
    IF name \in DOMAIN obj.attrs THEN obj.attrs[name] ELSE default
\* The value a field holds when it holds the k-th object.
SentinelValue(heap, k) ==
    Sentinel(heap[k].cls, IF k <= Len(Singletons) THEN 0 ELSE k - Len(Singletons),
             SentinelGetAttr(heap[k], "argparse_args", <<>>),
             SentinelGetAttr(heap[k], "argparse_kwargs", EmptyDict))
Ref(k) == [t |-> "ref", id |-> k]

\* A __call__ that sets the options on the receiver and returns it.
__call___onSelf(heap, self, aargs, akwargs) ==
    IF HasKey(akwargs, "dest")
    THEN [heap |-> heap, ret |-> Raise("AttributeError")]
    ELSE [heap |-> [heap EXCEPT ![self].attrs =
                        [argparse_args |-> aargs, argparse_kwargs |-> akwargs]],
          ret |-> Ref(self)]
\* _SPECIAL_ARGUMENT.__call__ on the object self: the objects after the
\* call and what it returned.  The object made before the AttributeError
\* is referred to by nothing.
__call__(heap, self, aargs, akwargs) ==
    IF HasKey(akwargs, "dest")
    THEN [heap |-> heap, ret |-> Raise("AttributeError")]
    ELSE [heap |-> Append(heap, SentinelObject(heap[self].cls,
                        [argparse_args |-> aargs, argparse_kwargs |-> akwargs])),
          ret |-> Ref(Len(heap) + 1)]

\* Calls of sentinels in one program.
MaxCalls == 2
CallOptions ==
    { <<<<>>, EmptyDict>>,
      <<<<MName>>, EmptyDict>>,
      <<<<>>, [default |-> V_W]>>,
      <<<<DashM>>, [type |-> TypeInt]>>,
      <<<<>>, [dest |-> NameV(MName)]>> }
HolderFields ==
    {PlainField(XY, NoDefault), PlainField(XY, Default(V_ABC)), args(XY, <<NName>>, EmptyDict)}

SentinelInit ==
    /\ decl = NoneV
    /\ call = [op |-> "import"]
    /\ ret = NoneV
    /\ InitTrees
    /\ InitRun

\* obj(*aargs, **akwargs) on one of the objects there are
ParameterizeSentinel(self, aargs, akwargs) ==
    /\ self \in 1..Len(sentinels)
    /\ Len(sentinels) < Len(Singletons) + MaxCalls
    /\ LET r == __call__(sentinels, self, aargs, akwargs)
       IN  /\ sentinels' = r.heap
           /\ ret' = r.ret
    /\ call' = [op |-> "obj.__call__", self |-> self, args |-> aargs, kwargs |-> akwargs]
    /\ UNCHANGED <<decl, tree, nodes, added, exposed2, items2, ncalls, cliVars, loadVars,
                   runVars>>

\* _arguments on an instance whose field x_y holds the k-th object
ExposeHolder(k, fd, inc) ==
    /\ k \in 1..Len(sentinels)
    /\ call' = [op |-> "obj._arguments", holds |-> k, field |-> fd, inc |-> inc]
    /\ ret' = [t |-> "specs",
               v |-> _arguments(Decl(<<fd>>, <<SentinelValue(sentinels, k)>>), inc)]
    /\ UNCHANGED <<decl, treeVars, runVars>>

SentinelNext ==
    \/ \E self \in 1..(Len(Singletons) + MaxCalls), o \in CallOptions :
            ParameterizeSentinel(self, o[1], o[2])
    \/ \E k \in 1..(Len(Singletons) + MaxCalls), fd \in HolderFields, inc \in Includes :
            ExposeHolder(k, fd, inc)

SentinelSpec == SentinelInit /\ [][SentinelNext]_vars

----------------------------------------------------------------------------
(* Claims about parameterizing a sentinel.                                 *)

\* The object of that class as the module made it.
BareSentinel(cls) == Sentinel(cls, 0, <<>>, EmptyDict)
\* A step leaves every object there is as it was.
SentinelsKept ==
    \A k \in 1..Len(sentinels) :
        k <= Len(sentinels') /\ sentinels'[k] = sentinels[k]

\* C28: parameterizing a sentinel changes no shared state: the call returns
\* a new object of the receiver's class carrying the options given, the
\* module-level singletons and every object made earlier stay as they were,
\* and the spec of a field holding a bare singleton shows no option.
C28_ParameterizingMakesNewObject ==
    /\ [](/\ \A k \in 1..Len(Singletons) : sentinels[k] = Singletons[k]
          /\ (call.op = "obj.__call__" /\ ~IsRaise(ret)) =>
                /\ ret = Ref(Len(sentinels))
                /\ ret.id # call.self
                /\ sentinels[ret.id] =
                      SentinelObject(sentinels[call.self].cls,
                                     [argparse_args |-> call.args,
                                      argparse_kwargs |-> call.kwargs])
          /\ (call.op = "obj._arguments" /\ call.holds <= Len(Singletons)) =>
                ret.v = _arguments(Decl(<<call.field>>,
                                        <<BareSentinel(Singletons[call.holds].cls)>>),
                                   call.inc))
    /\ [][SentinelsKept]_vars

\* REQUIRED_ARGUMENT was called with a name and the object it returned with
\* another option; a field x_y holding the bare REQUIRED_ARGUMENT is then
\* exposed as the positional 'x_y'.
C28_Witness ==
    /\ Len(sentinels) = 5
    /\ sentinels[4] = SentinelObject("_REQUIRED_ARGUMENT",
                                     [argparse_args |-> <<MName>>,
                                      argparse_kwargs |-> EmptyDict])
    /\ sentinels[5].cls = "_REQUIRED_ARGUMENT"
    /\ sentinels[5].attrs # sentinels[4].attrs
    /\ call.op = "obj._arguments"
    /\ call.holds = 1
    /\ call.field = PlainField(XY, NoDefault)
    /\ call.inc = "True"
    /\ XY \in DOMAIN ret.v
    /\ ret.v[XY].args = <<XY>>


----------------------------------------------------------------------------
(* What the exposition and the reconciliation leave of their receiver.     *)

\* The "argparse" dict of a field's metadata, as the object it is.
MetadataOf(f) == [id |-> <<"metadata", f.name>>, val |-> f.meta]
\* A copy that is the object it was given.
deepcopy_sameObject(o) == o
\* copy.deepcopy: an equal value in an object of its own.
deepcopy(o) == [id |-> <<"deepcopy">> \o o.id, val |-> o.val]

\* The field after lines 168-218 ran for it: the statements write the spec
\* into argparse_args, which is the field's own dict only if deepcopy
\* returned that dict.
FieldAfterArguments(f, field_val) ==
    LET argparse_args == IF f.meta.has THEN deepcopy(MetadataOf(f))
                         ELSE [id |-> <<"literal">>, val |-> SeedSpec(f, field_val)]
        spec == ArgSpec(f, field_val)
    IN  IF argparse_args.id = MetadataOf(f).id
        THEN [f EXCEPT !.meta = [has |-> TRUE, args |-> spec.args,
                                 kwargs |-> spec.kwargs, exclude |-> spec.exclude]]
        ELSE f

\* The receiver after self._arguments(add_all_fields=inc).
ReceiverAfterArguments(d, inc) ==
    [d EXCEPT !.fields = [i \in 1..Len(d.fields) |->
                            IF Exposed(d, inc, i)
                            THEN FieldAfterArguments(d.fields[i], d.vals[i])
                            ELSE d.fields[i]]]

\* The receiver after process.add_arguments(parser, add_all_fields=inc):
\* _arguments on itself, then add_arguments on what it holds.
RECURSIVE ReceiverAfterAddArguments(_, _)
ReceiverAfterAddArguments(r, inc) ==
    CASE r.t = "decl" ->
            LET d == ReceiverAfterArguments(r, inc)
            IN  [d EXCEPT !.vals = [i \in 1..Len(d.vals) |->
                                      IF d.fields[i].nested
                                      THEN ReceiverAfterAddArguments(d.vals[i], inc)
                                      ELSE d.vals[i]]]
      [] r.t = "Sequential" ->
            [r EXCEPT !.subprocesses =
                [i \in 1..Len(r.subprocesses) |->
                    ReceiverAfterAddArguments(r.subprocesses[i], inc)]]
      [] OTHER -> r

\* A replace that stores the changes in the instance it was given.
Replaced_inPlace(self, changes) ==
    LET new == replace(self, changes)
    IN  [self |-> IF IsRaise(new) THEN self ELSE new, ret |-> new]
\* dataclasses.replace(self, **changes): a new instance; self keeps its
\* values.
Replaced(self, changes) == [self |-> self, ret |-> replace(self, changes)]

\* The receiver after self.with_arguments(**kwargs): the nested
\* declarations after their own with_arguments, then the replace of line 253.
RECURSIVE ReceiverAfterWithArguments(_, _)
ReceiverAfterWithArguments(d, kwargs) ==
    LET nf == new_fields(d, kwargs, EmptyDict, 1)
        d1 == [d EXCEPT !.vals = [i \in 1..Len(d.vals) |->
                                    IF d.fields[i].nested
                                    THEN ReceiverAfterWithArguments(d.vals[i], kwargs)
                                    ELSE d.vals[i]]]
    IN  IF IsRaise(nf) THEN d1
        ELSE Replaced(d1, merged_kwargs(d, kwargs, nf.v)).self

\* ProcessRunner.prepare and SequentialProcessRunner.prepare: the
\* prepared subprocesses in a new Sequential, or the first failure.
RECURSIVE prepare(_, _)
prepare(r, kwargs) ==
    IF r.t = "Sequential"
    THEN LET subs == [i \in 1..Len(r.subprocesses) |-> prepare(r.subprocesses[i], kwargs)]
             failed == {i \in 1..Len(subs) : IsRaise(subs[i])}
         IN  IF failed # {}
             THEN subs[CHOOSE i \in failed : \A j \in failed : i <= j]
             ELSE SequentialProcessRunner(subs, r.piped)
    ELSE with_arguments(r, kwargs)
\* The receiver after self.prepare(**kwargs).
RECURSIVE ReceiverAfterPrepare(_, _)
ReceiverAfterPrepare(r, kwargs) ==
    IF r.t = "Sequential"
    THEN [r EXCEPT !.subprocesses =
            [i \in 1..Len(r.subprocesses) |->
                ReceiverAfterPrepare(r.subprocesses[i], kwargs)]]
    ELSE ReceiverAfterWithArguments(r, kwargs)

\* The processes that are exposed and reconciled again and again:
\* declarations with the one field x_y, the same after an init=False field,
\* declarations holding a nested one, and Sequentials of declarations.
ReusedValues ==
    {V_ABC, V_W, EllipsisV, REQUIRED_ARGUMENT, OPTIONAL_ARGUMENT, HIDDEN_ARGUMENT,
     SpecialCall(REQUIRED_ARGUMENT, 1, <<MName>>, EmptyDict),
     SpecialCall(OPTIONAL_ARGUMENT, 1, <<>>, [default |-> V_W])}
ReusedInner ==
    InnerDecls \cup {Command(EllipsisV), Command(REQUIRED_ARGUMENT), Command(V_ABC)}
ReusedProcesses ==
    { Decl(<<fd>>, <<v>>) : fd \in FieldDecls(XY), v \in ReusedValues }
    \cup { Decl(<<InitFalseField(TName, V_True), PlainField(XY, Default(V_ABC))>>, <<V_True, v>>) :
            v \in ReusedValues }
    \cup NestedDecls
    \cup { SequentialProcessRunner(<<d, b>>, FALSE) : d \in ReusedInner, b \in BDecls }
    \cup { SequentialProcessRunner(<<b, SequentialProcessRunner(<<d>>, TRUE)>>, FALSE) :
            d \in ReusedInner, b \in BDecls }

ReuseInit ==
    /\ decl \in ReusedProcesses
    /\ call = [op |-> "init", reconciled |-> FALSE]
    /\ ret = NoneV
    /\ InitTrees
    /\ InitRun

\* self._arguments(add_all_fields=inc), whatever was called before; the
\* call keeps whether the receiver has been reconciled already.
ArgumentsAgain(inc) ==
    /\ decl.t = "decl"
    /\ call' = [op |-> "_arguments", reconciled |-> call.reconciled, inc |-> inc]
    /\ ret' = [t |-> "specs", v |-> _arguments(decl, inc)]
    /\ decl' = ReceiverAfterArguments(decl, inc)
    /\ UNCHANGED <<treeVars, runVars>>

\* self.add_arguments(parser, add_all_fields=inc) on a fresh parser
AddArgumentsAgain(inc) ==
    /\ call' = [op |-> "add_arguments", reconciled |-> call.reconciled, inc |-> inc]
    /\ ret' = ProcessRunner_add_arguments(EmptyParser, decl, inc)
    /\ decl' = ReceiverAfterAddArguments(decl, inc)
    /\ UNCHANGED <<treeVars, runVars>>

\* self.with_arguments(**kwargs)
ReconcileAgain(kwargs) ==
    /\ decl.t = "decl"
    /\ call' = [op |-> "with_arguments", reconciled |-> TRUE, kwargs |-> kwargs]
    /\ ret' = with_arguments(decl, kwargs)
    /\ decl' = ReceiverAfterWithArguments(decl, kwargs)
    /\ UNCHANGED <<treeVars, runVars>>

\* self.prepare(**kwargs)
PrepareAgain(kwargs) ==
    /\ call' = [op |-> "prepare", reconciled |-> TRUE, kwargs |-> kwargs]
    /\ ret' = prepare(decl, kwargs)
    /\ decl' = ReceiverAfterPrepare(decl, kwargs)
    /\ UNCHANGED <<treeVars, runVars>>

ReuseNext ==
    \/ \E inc \in Includes : ArgumentsAgain(inc)
    \/ \E inc \in Includes : AddArgumentsAgain(inc)
    \/ \E kwargs \in Provided : ReconcileAgain(kwargs)
    \/ \E kwargs \in Provided : PrepareAgain(kwargs)

ReuseSpec == ReuseInit /\ [][ReuseNext]_vars

----------------------------------------------------------------------------
(* Claims about what exposition and reconciliation leave unchanged.        *)

\* C29: _arguments, add_arguments, with_arguments and prepare leave the
\* receiver as it was (its field values, its nested declarations, the
\* metadata of its fields), and _arguments called again with the same
\* predicate returns an equal result.
C29_ReceiverIsLeftUnchanged ==
    [][/\ decl' = decl
       /\ (call.op = "_arguments" /\ call'.op = "_arguments" /\ call'.inc = call.inc)
            => ret' = ret]_vars

\* A declaration whose field has metadata and still holds REQUIRED_ARGUMENT
\* is exposed after it was reconciled with a provided value.
C29_Witness ==
    /\ call.op = "_arguments"
    /\ call.reconciled
    /\ call.inc = "True"
    /\ decl.t = "decl"
    /\ \E i \in 1..Len(decl.fields) :
          /\ decl.fields[i].meta.has
          /\ decl.vals[i] = REQUIRED_ARGUMENT
          /\ decl.fields[i].name \in DOMAIN ret.v


----------------------------------------------------------------------------
(* Claims about the failures of add_item.                                  *)

\* The groups on the way to the node a hierarchy names, that node included.
NodesOnTheWay(hierarchy) == {SubSeq(hierarchy, 1, n) : n \in 0..Len(hierarchy)}
\* The node the hierarchy names has a child group of that name.
CollidesAtDestination(ns, item, hierarchy) ==
    /\ hierarchy \in DOMAIN ns
    /\ item_name(item) \in ns[hierarchy].leafs

\* C30 as stated: add_item(item, hierarchy) on an AttrTree / NamedTree
\* whose destination node has no child group named as the item raises
\* nothing, creates the missing groups and stores the item at the
\* destination, whatever the names at the ancestors and the policy.
C30_InsertionFailsOnlyAtDestination ==
    [][(/\ tree.cls = "AttrTree"
        /\ call'.op = "add_item"
        /\ ncalls' = ncalls + 1
        /\ ~CollidesAtDestination(nodes, call'.item, call'.hierarchy))
       => /\ ~IsRaise(ret')
          /\ NodesOnTheWay(call'.hierarchy) \subseteq DOMAIN nodes'
          /\ item_name(call'.item) \in DOMAIN nodes'[call'.hierarchy].exposed
          /\ nodes'[call'.hierarchy].exposed[item_name(call'.item)] = call'.item]_vars

\* C30 failing state: on an empty tree that exposes the items of its
\* groups, add_item(a, ['a']) ends with KeyError: the root got the
\* attribute 'a' for the item, so the group 'a' was never created.
C30_FirstInsertionRaisesKeyError ==
    /\ tree.cls = "AttrTree"
    /\ tree.config.expose_leafs_items
    /\ ncalls = 1
    /\ call.op = "add_item"
    /\ item_name(call.item) = AName
    /\ call.hierarchy = <<AName>>
    /\ ret = Raise("KeyError")
    /\ DOMAIN nodes = {<<>>}
    /\ nodes[<<>>].leafs = {}
    /\ AName \in DOMAIN nodes[<<>>].attrs

============================================================================
